---- MODULE Spec2Model ----
(***************************************************************************)
(* Control plane of the agent backup service: the two DataStore backends   *)
(* (SQLiteStore, DynamoStore), the request pipeline (Auth, RequireActive)  *)
(* and the HTTP handlers that sit on top of them.                          *)
(*                                                                         *)
(* One request is one action: token lookup, activeness gate and handler    *)
(* run without interleaving.  The DynamoDB token-hash-index is a global    *)
(* secondary index; the service maintains it asynchronously, so it is a    *)
(* separate copy of the agent items that GSIPropagate brings up to date.   *)
(* Reads of the base tables are taken as consistent.                       *)
(*                                                                         *)
(* The state space of the whole service is the product of independent      *)
(* concerns, so four specifications over the same actions are checked:     *)
(*   SpecAgents    enrolment, tokens and admin status changes,             *)
(*   SpecGate      the activeness gate in front of the mutating endpoints, *)
(*   SpecBackups   the backup lifecycle of one enrolled, approved agent    *)
(*                 at one instant of the clock,                            *)
(*   SpecRetention the same lifecycle while the clock advances, clients    *)
(*                 store objects and DynamoDB expires items.               *)
(***************************************************************************)
EXTENDS Integers, FiniteSets, Sequences, TLC

VARIABLES backend, agents, gsi, backups, objects, now, nextToken, last,
          mirror, config, windows, calls, srv, inflight

vars == <<backend, agents, gsi, backups, objects, now, nextToken, last, mirror,
          config, windows, calls, srv, inflight>>

----------------------------------------------------------------------------
(* Bounds of the model *)

MaxAgents == 2
MaxTimestamp == 2
MaxBytes == 1
MaxToken == 2
MaxTime == 2
MaxKeyLen == 2
MaxRateLimit == 1
MaxCalls == 2

(* Configuration (Config / LoadConfig), scaled to the bounds above.  The  *)
(* clock counts in units of DeleteGraceHours.                              *)
DefaultQuotaBytes == 2
MaxBackupsPerAgent == 1
MaxUploadBytes == 1
RetentionTicks == 2
DeleteGraceTicks == 1
MinBackupIntervalTicks == 1
DefaultRegisterRateLimit == 2
DefaultMaxPendingAgents == 1
\* the window of the rate limiter (time.Minute) in ticks of the clock
WindowTicks == 1

AgentIDs == 1..MaxAgents
Timestamps == 1..MaxTimestamp
EmptyTimestamp == 0
ByteSizes == 0..MaxBytes
Tokens == 1..MaxToken
Backends == {"sqlite", "dynamo"}

NULL == -1

----------------------------------------------------------------------------
(* Tokens *)

\* HashToken: SHA-256 hex digest of the token, a collision-free one-way map.
HashToken(token) == <<"sha256", token>>

NoHash == <<"none", 0>>

----------------------------------------------------------------------------
(* Rows and items *)

NoAgent == [exists |-> FALSE, token_hash |-> NoHash, status |-> "",
            quota_bytes |-> 0, used_bytes |-> 0]

NoBackup == [exists |-> FALSE, encrypted_bytes |-> 0, s3_key |-> <<>>,
             manifest_s3_key |-> <<>>, created_at |-> 0,
             deleted_at |-> NULL, expires_at |-> NULL]

\* a row that exists and whose deleted_at is NULL / absent
IsVisible(b) == b.exists /\ b.deleted_at = NULL

IsAnyRow(b) == b.exists

IsSoftDeleted(b) == b.exists /\ b.deleted_at # NULL

VisibleTimestamps(bk, a) == {ts \in Timestamps : IsVisible(bk[<<a, ts>>])}

RECURSIVE SumBytes(_, _, _)
SumBytes(bk, a, S) ==
    IF S = {} THEN 0
    ELSE LET ts == CHOOSE x \in S : TRUE
         IN  bk[<<a, ts>>].encrypted_bytes + SumBytes(bk, a, S \ {ts})

\* CountBackups: COUNT(*), COALESCE(SUM(encrypted_bytes), 0) over the rows
\* with deleted_at IS NULL (sqlite) / the filter
\* attribute_not_exists(deleted_at) OR deleted_at = "" (dynamo).
CountBackups(bk, a) ==
    [count |-> Cardinality(VisibleTimestamps(bk, a)),
     totalBytes |-> SumBytes(bk, a, VisibleTimestamps(bk, a))]

----------------------------------------------------------------------------
(* Agent operations of the stores.  Each takes the tables and yields the   *)
(* tables after the call together with the call's error flag.              *)

\* unmarshalAgent: an empty or missing status reads back as "active".
unmarshalAgent(item) ==
    [item EXCEPT !.status = IF item.status = "" THEN "active" ELSE item.status]

\* the agent as a store read returns it
ReadAgent(be, item) == IF be = "dynamo" THEN unmarshalAgent(item) ELSE item

\* CreateAgent: INSERT (fails on a primary-key collision) / PutItem (replaces).
CreateAgent(be, ag, id, tokenHash, status, quota) ==
    LET row == [exists |-> TRUE, token_hash |-> tokenHash, status |-> status,
                quota_bytes |-> quota, used_bytes |-> 0]
    IN  IF be = "sqlite" /\ ag[id].exists
        THEN [ag |-> ag, err |-> TRUE]
        ELSE [ag |-> [ag EXCEPT ![id] = row], err |-> FALSE]

\* GetAgent: SELECT ... WHERE id = ? / GetItem.
GetAgent(be, ag, id) == IF ag[id].exists THEN ReadAgent(be, ag[id]) ELSE NoAgent

\* RotateAgentToken: UPDATE agents SET token_hash / UpdateItem SET token_hash
\* (UpdateItem without a condition creates the item when it is missing).
RotateAgentToken(be, ag, id, newTokenHash) ==
    IF ag[id].exists
    THEN [ag EXCEPT ![id].token_hash = newTokenHash]
    ELSE IF be = "dynamo"
         THEN [ag EXCEPT ![id] = [NoAgent EXCEPT !.exists = TRUE,
                                                 !.token_hash = newTokenHash]]
         ELSE ag

UpdateUsedBytesSumAll(be, ag, bk, id) ==
    LET total == SumBytes(bk, id, {ts \in Timestamps : bk[<<id, ts>>].exists})
    IN  IF ag[id].exists THEN [ag EXCEPT ![id].used_bytes = total] ELSE ag

\* UpdateUsedBytes: used_bytes := sum of encrypted_bytes over the visible
\* backups of the agent.
UpdateUsedBytes(be, ag, bk, id) ==
    LET total == CountBackups(bk, id).totalBytes
    IN  IF ag[id].exists
        THEN [ag EXCEPT ![id].used_bytes = total]
        ELSE IF be = "dynamo"
             THEN [ag EXCEPT ![id] = [NoAgent EXCEPT !.exists = TRUE,
                                                     !.used_bytes = total]]
             ELSE ag

\* UpdateAgentStatus as an UpdateItem without the attribute_exists condition.
UpdateAgentStatusUpsert(be, ag, id, status) ==
    [ag |-> [ag EXCEPT ![id] = [@ EXCEPT !.exists = TRUE, !.status = status]],
     err |-> FALSE]

\* UpdateAgentStatus: fails when no row / item has the id.
UpdateAgentStatus(be, ag, id, status) ==
    IF ag[id].exists
    THEN [ag |-> [ag EXCEPT ![id].status = status], err |-> FALSE]
    ELSE [ag |-> ag, err |-> TRUE]

----------------------------------------------------------------------------
(* Backup operations of the stores *)

\* GetBackup without the deleted_at filter.
GetBackupAnyRow(bk, a, ts) ==
    IF bk[<<a, ts>>].exists THEN bk[<<a, ts>>] ELSE NoBackup

\* GetBackup: only a visible row is returned; NoBackup stands for nil.
GetBackup(bk, a, ts) ==
    IF IsVisible(bk[<<a, ts>>]) THEN bk[<<a, ts>>] ELSE NoBackup

\* CreateBackup: INSERT fails when a row (visible or not) has the key;
\* PutItem replaces the item.  Followed by UpdateUsedBytes.
CreateBackup(be, ag, bk, a, ts, bytes, s3Key, manifestKey, t) ==
    LET row == [exists |-> TRUE, encrypted_bytes |-> bytes, s3_key |-> s3Key,
                manifest_s3_key |-> manifestKey, created_at |-> t,
                deleted_at |-> NULL,
                expires_at |-> IF be = "dynamo" THEN t + RetentionTicks ELSE NULL]
        bk2 == [bk EXCEPT ![<<a, ts>>] = row]
    IN  IF be = "sqlite" /\ bk[<<a, ts>>].exists
        THEN [ag |-> ag, bk |-> bk, err |-> TRUE]
        ELSE [ag |-> UpdateUsedBytes(be, ag, bk2, a), bk |-> bk2, err |-> FALSE]

\* the soft-delete mark: deleted_at = now; dynamo also moves the TTL
\* attribute to now + deleteGraceHours.
MarkDeleted(be, b, t) ==
    [b EXCEPT !.deleted_at = t,
              !.expires_at = IF be = "dynamo" THEN t + DeleteGraceTicks ELSE @]

\* DeleteBackup: returns the row as it was (nil when no visible row).
DeleteBackup(be, ag, bk, a, ts, t) ==
    LET b == GetBackup(bk, a, ts)
        bk2 == [bk EXCEPT ![<<a, ts>>] = MarkDeleted(be, @, t)]
    IN  IF ~b.exists
        THEN [ag |-> ag, bk |-> bk, ret |-> NoBackup]
        ELSE [ag |-> UpdateUsedBytes(be, ag, bk2, a), bk |-> bk2, ret |-> b]

\* DeleteAllBackups, given the sequence listed that ListBackups(agentID,
\* 10000) returned: sqlite marks every visible row of the agent with one
\* UPDATE, dynamo marks the listed rows one by one; both return listed.
DeleteAllBackups(be, ag, bk, a, t, listed) ==
    LET marked == IF be = "sqlite" THEN VisibleTimestamps(bk, a)
                  ELSE {listed[i] : i \in 1..Len(listed)}
        bk2 == [k \in DOMAIN bk |->
                   IF k[1] = a /\ k[2] \in marked
                   THEN MarkDeleted(be, bk[k], t) ELSE bk[k]]
    IN  [ag |-> UpdateUsedBytes(be, ag, bk2, a), bk |-> bk2, ret |-> listed]

\* UndeleteBackup that leaves used_bytes as the delete set it.
UndeleteBackupNoRecount(be, ag, bk, a, ts, t) ==
    LET bk2 == [bk EXCEPT ![<<a, ts>>] = [@ EXCEPT !.deleted_at = NULL]]
    IN  IF ~IsSoftDeleted(bk[<<a, ts>>])
        THEN [ag |-> ag, bk |-> bk, err |-> TRUE]
        ELSE [ag |-> ag, bk |-> bk2, err |-> FALSE]

\* UndeleteBackup: clears deleted_at of a soft-deleted row, else an error;
\* dynamo resets the TTL attribute to now + retention.
UndeleteBackup(be, ag, bk, a, ts, t) ==
    LET bk2 == [bk EXCEPT ![<<a, ts>>] =
                   [@ EXCEPT !.deleted_at = NULL,
                             !.expires_at = IF be = "dynamo"
                                            THEN t + RetentionTicks ELSE @]]
    IN  IF ~IsSoftDeleted(bk[<<a, ts>>])
        THEN [ag |-> ag, bk |-> bk, err |-> TRUE]
        ELSE [ag |-> UpdateUsedBytes(be, ag, bk2, a), bk |-> bk2, err |-> FALSE]

----------------------------------------------------------------------------
(* ListBackups *)

Min(x, y) == IF x < y THEN x ELSE y

RECURSIVE DescTimestamps(_)
\* the timestamps of S in descending order (ScanIndexForward = false)
DescTimestamps(S) ==
    IF S = {} THEN <<>>
    ELSE LET m == CHOOSE x \in S : \A y \in S : y <= x
         IN  <<m>> \o DescTimestamps(S \ {m})

SeqRange(s) == {s[i] : i \in 1..Len(s)}

EffectiveLimit(limit) == IF limit <= 0 THEN 100 ELSE limit

\* the limit DeleteAllBackups passes to ListBackups (10000 in the code),
\* scaled like the configuration so that an agent can hold more backups
DeleteAllListLimit == 1

\* DynamoStore.ListBackups: Query on the agent's partition, newest sort key
\* first; Limit bounds the items evaluated, the filter on deleted_at is
\* applied to the evaluated items afterwards.
DynamoListBackups(bk, a, limit) ==
    LET all == DescTimestamps({ts \in Timestamps : bk[<<a, ts>>].exists})
        evaluated == SubSeq(all, 1, Min(EffectiveLimit(limit), Len(all)))
    IN  SelectSeq(evaluated, LAMBDA ts : IsVisible(bk[<<a, ts>>]))

\* SQLiteStore.ListBackups: the visible rows ORDER BY created_at DESC LIMIT ?;
\* rows with equal created_at come in any order.
SQLiteListBackups(bk, a, limit) ==
    LET vis == VisibleTimestamps(bk, a)
        n == Min(EffectiveLimit(limit), Cardinality(vis))
    IN  {s \in [1..n -> vis] :
            /\ \A i, j \in 1..n : i # j => s[i] # s[j]
            /\ \A i, j \in 1..n :
                  i < j => bk[<<a, s[i]>>].created_at >= bk[<<a, s[j]>>].created_at
            /\ \A ts \in vis \ SeqRange(s) : \A i \in 1..n :
                  bk[<<a, ts>>].created_at <= bk[<<a, s[i]>>].created_at}

\* the results ListBackups can return
ListBackups(be, bk, a, limit) ==
    IF be = "dynamo" THEN {DynamoListBackups(bk, a, limit)}
    ELSE SQLiteListBackups(bk, a, limit)

----------------------------------------------------------------------------
(* Request pipeline *)

\* LookupAgentByToken without the comparison of the hash.
LookupAgentAnyHash(be, ag, idx, token) ==
    LET src == IF be = "dynamo" THEN idx ELSE ag
    IN  {id \in AgentIDs : src[id].exists}

\* LookupAgentByToken: the ids of the rows whose token_hash is the hash of
\* the token.  sqlite reads the agents table, dynamo the token-hash-index.
LookupAgentByToken(be, ag, idx, token) ==
    LET src == IF be = "dynamo" THEN idx ELSE ag
    IN  {id \in AgentIDs : src[id].exists /\ src[id].token_hash = HashToken(token)}

\* the agent Auth puts into the request context
ContextAgent(be, ag, idx, id) ==
    ReadAgent(be, IF be = "dynamo" THEN idx[id] ELSE ag[id])

\* RequireActive: 403 unless agent.status == "active"
RequireActive(agent) == agent.status = "active"

S3Key(a, ts) == <<a, ts, "backup.tar.gz.enc">>

ManifestS3Key(a, ts) == <<a, ts, "manifest.json">>

QuotaExceededOffByOne(used, bytes, quota) == used + bytes >= quota

\* UploadURL: agent.UsedBytes + req.EncryptedBytes > agent.QuotaBytes
QuotaExceeded(used, bytes, quota) == used + bytes > quota

NoReply == [op |-> "none", tok |-> 0, agent |-> 0, seen |-> "", used |-> 0,
            quota |-> 0, ts |-> 0, bytes |-> 0, status |-> 0, why |-> "",
            ret |-> <<>>, newtok |-> 0, count |-> 0, limit |-> 0, urls |-> {},
            failed |-> "none"]

\* the tables after a request; the SQL index on token_hash is part of the
\* agents table, the DynamoDB index follows later
Commit(ag2, bk2) ==
    /\ agents' = ag2
    /\ backups' = bk2
    /\ gsi' = IF backend = "sqlite" THEN ag2 ELSE gsi

NoCommit == UNCHANGED <<agents, gsi, backups>>

\* what a store call hands back: the error flag, the agent or backup read and
\* the timestamps listed
NoOutcome == [err |-> FALSE, agent |-> NoAgent, backup |-> NoBackup, list |-> <<>>]

\* a second store that receives the same calls as the first (used only by
\* SpecStores): its tables, and the outcomes of the last call on both stores
NoMirror == [ag |-> [id \in AgentIDs |-> NoAgent],
             bk |-> [k \in AgentIDs \X Timestamps |-> NoBackup],
             out |-> NoOutcome, ref |-> NoOutcome]

\* Config as LoadConfig fills it from an environment that sets none of the
\* three variables; a string is the sequence of its characters
DefaultConfig == [AdminAPIKey |-> <<>>,
                  RegisterRateLimit |-> DefaultRegisterRateLimit,
                  MaxPendingAgents |-> DefaultMaxPendingAgents]

ClientIPs == 1..MaxCalls

\* globalRateLimiter.windows: no key yet
NoWindow == [exists |-> FALSE, count |-> 0, windowStart |-> 0]

NoWindows == [ip \in ClientIPs |-> NoWindow]

\* a register request inside RateLimit: where it is, its client, the instant
\* Allow read the clock and the window it is about to store
IdleCall == [pc |-> "idle", ip |-> 0, at |-> 0, window |-> NoWindow]

\* the requests in flight, and for every client and instant the number of
\* its requests that arrived at that instant and were handed to the wrapped
\* handler (instants before the client's current window are forgotten)
NoCalls == [slot |-> [r \in 1..MaxCalls |-> IdleCall],
            served |-> [ip \in ClientIPs |-> [t \in 0..MaxTime |-> 0]]]

\* a request between its middleware and its last store call: the agent
\* Auth put into the request context, the request's inputs, the row
\* GetBackup returned, and the status answered
IdleRequest == [pc |-> "idle", op |-> "none", agent |-> 0, ctx |-> NoAgent,
                ts |-> 0, bytes |-> 0, got |-> NoBackup, status |-> 0]

NoRequests == [r \in 1..MaxCalls |-> IdleRequest]

\* the shutdown context's timeout (10 s in main), in clock ticks
ShutdownTicks == 1

\* the HTTP server process right after main has started ListenAndServe:
\* main's position, the signal goroutine's position, the listener, the
\* store handle, the connections being served, and what srv.Shutdown
\* found when it was called
Serving == [main |-> "ListenAndServe", shutdown |-> "waiting",
            listening |-> TRUE, storeOpen |-> TRUE, deadline |-> NULL,
            conn |-> [r \in 1..MaxCalls |-> "none"], atSignal |-> {}]

----------------------------------------------------------------------------
(* Initial state: an empty store on either backend *)

Init ==
    /\ backend \in Backends
    /\ agents = [id \in AgentIDs |-> NoAgent]
    /\ gsi = [id \in AgentIDs |-> NoAgent]
    /\ backups = [k \in AgentIDs \X Timestamps |-> NoBackup]
    /\ objects = {}
    /\ now = 0
    /\ nextToken = 1
    /\ last = NoReply
    /\ mirror = NoMirror
    /\ config = DefaultConfig
    /\ windows = NoWindows
    /\ calls = NoCalls
    /\ srv = Serving
    /\ inflight = NoRequests

----------------------------------------------------------------------------
(* Agent lifecycle handlers *)

\* POST /v1/agents/register.  GenerateAgentID and GenerateToken draw fresh
\* random values; the Agent handed to CreateAgent has no Status set.
Handlers_Register ==
    \E nameGiven \in BOOLEAN :
        IF ~nameGiven
        THEN /\ last' = [NoReply EXCEPT !.op = "Register", !.status = 400]
             /\ NoCommit
             /\ UNCHANGED <<inflight, srv, config, mirror, backend, objects, now, nextToken>>
        ELSE /\ nextToken <= MaxToken
             /\ \E id \in AgentIDs :
                   /\ ~agents[id].exists
                   /\ LET r == CreateAgent(backend, agents, id,
                                           HashToken(nextToken), "",
                                           DefaultQuotaBytes)
                      IN  /\ Commit(r.ag, backups)
                          /\ last' = [NoReply EXCEPT
                                         !.op = "Register", !.agent = id,
                                         !.status = IF r.err THEN 500 ELSE 201,
                                         !.newtok = nextToken,
                                         !.quota = DefaultQuotaBytes]
             /\ nextToken' = nextToken + 1
             /\ UNCHANGED <<inflight, srv, config, mirror, backend, objects, now>>

\* the register route with a request the rate limiter lets through
Register == Handlers_Register /\ UNCHANGED <<windows, calls>>

\* the reply Auth writes when the lookup finds no agent; the wrapped handler
\* is not reached
Unauthorized(tok) ==
    /\ last' = [NoReply EXCEPT !.op = "Auth", !.tok = tok, !.status = 401,
                               !.why = "auth"]
    /\ NoCommit

\* the request as the handler sees it: the agent Auth put into the context
Request(op, tok, id, agent) ==
    [NoReply EXCEPT !.op = op, !.tok = tok, !.agent = id,
                    !.seen = agent.status, !.used = agent.used_bytes,
                    !.quota = agent.quota_bytes]

\* GET /v1/agents/me: UpdateUsedBytes, then GetAgent.
AgentInfo ==
    \E tok \in Tokens :
        LET found == LookupAgentByToken(backend, agents, gsi, tok)
        IN  /\ IF found = {}
               THEN Unauthorized(tok)
               ELSE \E id \in found :
                      LET agent == ContextAgent(backend, agents, gsi, id)
                          ag2 == UpdateUsedBytes(backend, agents, backups, id)
                          updated == GetAgent(backend, ag2, id)
                      IN  /\ Commit(ag2, backups)
                          /\ last' = [Request("AgentInfo", tok, id, agent) EXCEPT
                                         !.status = 200,
                                         !.used = updated.used_bytes]
            /\ UNCHANGED <<inflight, srv, config, windows, calls, mirror, backend, objects, now, nextToken>>

\* POST /v1/agents/me/rotate-token
RotateToken ==
    \E tok \in Tokens :
        LET found == LookupAgentByToken(backend, agents, gsi, tok)
        IN  IF found = {}
            THEN /\ Unauthorized(tok)
                 /\ UNCHANGED <<inflight, srv, config, windows, calls, mirror, backend, objects, now, nextToken>>
            ELSE /\ nextToken <= MaxToken
                 /\ \E id \in found :
                      LET agent == ContextAgent(backend, agents, gsi, id)
                      IN  /\ Commit(RotateAgentToken(backend, agents, id,
                                                     HashToken(nextToken)),
                                    backups)
                          /\ last' = [Request("RotateToken", tok, id, agent) EXCEPT
                                         !.status = 200, !.tok = tok,
                                         !.newtok = nextToken]
                 /\ nextToken' = nextToken + 1
                 /\ UNCHANGED <<inflight, srv, config, windows, calls, mirror, backend, objects, now>>

\* POST /v1/admin/agents/{id}/approve and .../suspend
AdminSetStatus(op, status) ==
    \E id \in AgentIDs :
        LET r == UpdateAgentStatus(backend, agents, id, status)
        IN  /\ Commit(r.ag, backups)
            /\ last' = [NoReply EXCEPT !.op = op, !.agent = id,
                                       !.status = IF r.err THEN 404 ELSE 200]
            /\ UNCHANGED <<inflight, srv, config, windows, calls, mirror, backend, objects, now, nextToken>>

AdminApproveAgent == AdminSetStatus("AdminApproveAgent", "active")

AdminSuspendAgent == AdminSetStatus("AdminSuspendAgent", "suspended")

----------------------------------------------------------------------------
(* Backup lifecycle handlers.  Store and object-store calls do not fail    *)
(* for reasons outside the program (no I/O faults).                        *)

Forbidden(req) ==
    /\ last' = [req EXCEPT !.status = 403, !.why = "active"]
    /\ NoCommit

\* the file names a client can put into the files field of upload-url
FileNames == {"backup.tar.gz.enc", "manifest.json", "extra.bin"}

\* the object key of a file of a backup: agent.ID + "/" + timestamp + "/" + file
ObjectKey(a, ts, file) == <<a, ts, file>>

\* S3Client.PresignPut: a URL for a PUT of any length to the key
PresignPut(key) == [key |-> key, content_length |-> NULL]

\* S3Client.PresignPutWithLength: a URL for a PUT of exactly n bytes
PresignPutWithLength(key, n) == [key |-> key, content_length |-> n]

\* the URLs upload-url mints: one per requested file, the default list when
\* the request names none
MintedURLs(a, ts, files) ==
    LET list == IF files = {} THEN {"backup.tar.gz.enc", "manifest.json"}
                ELSE files
    IN  {PresignPut(ObjectKey(a, ts, file)) : file \in list}

\* POST /v1/backups/upload-url, behind Auth and RequireActive, for requests
\* whose files field is one of FileLists
Handlers_UploadURL(FileLists) ==
    \E tok \in Tokens, ts \in Timestamps \cup {EmptyTimestamp}, bytes \in ByteSizes,
       files \in FileLists :
        LET found == LookupAgentByToken(backend, agents, gsi, tok)
        IN  /\ IF found = {}
               THEN Unauthorized(tok)
               ELSE \E id \in found :
                      LET agent == ContextAgent(backend, agents, gsi, id)
                          req == [Request("UploadURL", tok, id, agent) EXCEPT
                                     !.ts = ts, !.bytes = bytes]
                          r == CreateBackup(backend, agents, backups, id, ts, bytes,
                                            S3Key(id, ts), ManifestS3Key(id, ts), now)
                      IN  IF ~RequireActive(agent)
                          THEN Forbidden(req)
                          ELSE IF ts = EmptyTimestamp
                          THEN /\ last' = [req EXCEPT !.status = 400,
                                                      !.why = "timestamp"]
                               /\ NoCommit
                          ELSE IF QuotaExceeded(agent.used_bytes, bytes,
                                                agent.quota_bytes)
                          THEN /\ last' = [req EXCEPT !.status = 403,
                                                      !.why = "quota"]
                               /\ NoCommit
                          ELSE IF r.err
                          THEN /\ last' = [req EXCEPT !.status = 500,
                                                      !.why = "store"]
                               /\ NoCommit
                          ELSE /\ last' = [req EXCEPT
                                              !.status = 200,
                                              !.urls = MintedURLs(id, ts, files)]
                               /\ Commit(r.ag, r.bk)
            /\ UNCHANGED <<inflight, srv, config, windows, calls, mirror, backend, objects, now, nextToken>>

\* upload-url without a files field
UploadURL == Handlers_UploadURL({{}})

\* upload-url with or without a files field
UploadURL_Files == Handlers_UploadURL(SUBSET FileNames)

\* GET /v1/backups?limit=
Handlers_ListBackups ==
    \E tok \in Tokens, limit \in 0..MaxTimestamp :
        LET found == LookupAgentByToken(backend, agents, gsi, tok)
        IN  /\ IF found = {}
               THEN Unauthorized(tok)
               ELSE \E id \in found :
                      LET agent == ContextAgent(backend, agents, gsi, id)
                          c == CountBackups(backups, id)
                      IN  \E listed \in ListBackups(backend, backups, id,
                                                    IF limit > 0 THEN limit ELSE 100) :
                             /\ last' = [Request("ListBackups", tok, id, agent) EXCEPT
                                            !.status = 200, !.ret = listed,
                                            !.used = c.totalBytes,
                                            !.count = c.count, !.limit = limit]
                             /\ NoCommit
            /\ UNCHANGED <<inflight, srv, config, windows, calls, mirror, backend, objects, now, nextToken>>

\* ReadBackup routed behind RequireActive like the mutating endpoints.
ReadBackupGated(op) ==
    \E tok \in Tokens, ts \in Timestamps :
        LET found == LookupAgentByToken(backend, agents, gsi, tok)
        IN  /\ IF found = {}
               THEN Unauthorized(tok)
               ELSE \E id \in found :
                      LET agent == ContextAgent(backend, agents, gsi, id)
                          b == GetBackup(backups, id, ts)
                          req == [Request(op, tok, id, agent) EXCEPT !.ts = ts]
                      IN  IF ~RequireActive(agent)
                          THEN Forbidden(req)
                          ELSE /\ last' = IF b.exists
                                          THEN [req EXCEPT !.status = 200,
                                                           !.ret = <<ts>>]
                                          ELSE [req EXCEPT !.status = 404]
                               /\ NoCommit
            /\ UNCHANGED <<inflight, srv, config, windows, calls, mirror, backend, objects, now, nextToken>>

\* GET /v1/backups/{timestamp} and POST /v1/backups/download-url: both
\* answer 404 when store.GetBackup returns nil
ReadBackup(op) ==
    \E tok \in Tokens, ts \in Timestamps :
        LET found == LookupAgentByToken(backend, agents, gsi, tok)
        IN  /\ IF found = {}
               THEN Unauthorized(tok)
               ELSE \E id \in found :
                      LET agent == ContextAgent(backend, agents, gsi, id)
                          b == GetBackup(backups, id, ts)
                          req == [Request(op, tok, id, agent) EXCEPT !.ts = ts]
                      IN  /\ last' = IF b.exists
                                     THEN [req EXCEPT
                                              !.status = 200, !.ret = <<ts>>,
                                              !.bytes = b.encrypted_bytes,
                                              !.urls = IF op = "DownloadURL"
                                                       THEN {b.s3_key,
                                                             b.manifest_s3_key}
                                                       ELSE {}]
                                     ELSE [req EXCEPT !.status = 404]
                          /\ NoCommit
            /\ UNCHANGED <<inflight, srv, config, windows, calls, mirror, backend, objects, now, nextToken>>

Handlers_GetBackup == ReadBackup("GetBackup")

DownloadURL == ReadBackup("DownloadURL")

\* S3Client.DeleteBackupObjects: DeleteObject on both keys of the backup
DeleteBackupObjects(objs, b) == objs \ {b.s3_key, b.manifest_s3_key}

\* DELETE /v1/backups/{timestamp}, behind Auth and RequireActive
Handlers_DeleteBackup ==
    \E tok \in Tokens, ts \in Timestamps :
        LET found == LookupAgentByToken(backend, agents, gsi, tok)
        IN  /\ IF found = {}
               THEN Unauthorized(tok) /\ UNCHANGED objects
               ELSE \E id \in found :
                      LET agent == ContextAgent(backend, agents, gsi, id)
                          req == [Request("DeleteBackup", tok, id, agent) EXCEPT
                                     !.ts = ts]
                          r == DeleteBackup(backend, agents, backups, id, ts, now)
                      IN  IF ~RequireActive(agent)
                          THEN Forbidden(req) /\ UNCHANGED objects
                          ELSE IF ~r.ret.exists
                          THEN /\ last' = [req EXCEPT !.status = 404]
                               /\ NoCommit
                               /\ UNCHANGED objects
                          ELSE /\ last' = [req EXCEPT !.status = 200,
                                                      !.ret = <<ts>>]
                               /\ Commit(r.ag, r.bk)
                               /\ objects' = DeleteBackupObjects(objects, r.ret)
            /\ UNCHANGED <<inflight, srv, config, windows, calls, mirror, backend, now, nextToken>>

RECURSIVE DeleteAllObjects(_, _, _, _)
\* the loop over the returned backups in Handlers.DeleteAllBackups
DeleteAllObjects(objs, bk, a, S) ==
    IF S = {} THEN objs
    ELSE LET ts == CHOOSE x \in S : TRUE
         IN  DeleteAllObjects(DeleteBackupObjects(objs, bk[<<a, ts>>]), bk, a,
                              S \ {ts})

\* DELETE /v1/backups, behind Auth and RequireActive
Handlers_DeleteAllBackups ==
    \E tok \in Tokens :
        LET found == LookupAgentByToken(backend, agents, gsi, tok)
        IN  /\ IF found = {}
               THEN Unauthorized(tok) /\ UNCHANGED objects
               ELSE \E id \in found :
                      LET agent == ContextAgent(backend, agents, gsi, id)
                          req == Request("DeleteAllBackups", tok, id, agent)
                      IN  IF ~RequireActive(agent)
                          THEN Forbidden(req) /\ UNCHANGED objects
                          ELSE \E listed \in ListBackups(backend, backups, id,
                                                         DeleteAllListLimit) :
                                 LET r == DeleteAllBackups(backend, agents,
                                                           backups, id, now, listed)
                                 IN  /\ last' = [req EXCEPT
                                                    !.status = 200,
                                                    !.ret = r.ret,
                                                    !.count = Len(r.ret)]
                                     /\ Commit(r.ag, r.bk)
                                     /\ objects' = DeleteAllObjects(
                                                       objects, backups, id,
                                                       SeqRange(r.ret))
            /\ UNCHANGED <<inflight, srv, config, windows, calls, mirror, backend, now, nextToken>>

\* POST /v1/backups/{timestamp}/undelete, behind Auth and RequireActive:
\* 404 when store.UndeleteBackup reports an error
Handlers_UndeleteBackup ==
    \E tok \in Tokens, ts \in Timestamps :
        LET found == LookupAgentByToken(backend, agents, gsi, tok)
        IN  /\ IF found = {}
               THEN Unauthorized(tok)
               ELSE \E id \in found :
                      LET agent == ContextAgent(backend, agents, gsi, id)
                          req == [Request("UndeleteBackup", tok, id, agent) EXCEPT
                                     !.ts = ts]
                          r == UndeleteBackup(backend, agents, backups, id, ts, now)
                      IN  IF ~RequireActive(agent)
                          THEN Forbidden(req)
                          ELSE IF r.err
                          THEN /\ last' = [req EXCEPT !.status = 404]
                               /\ NoCommit
                          ELSE /\ last' = [req EXCEPT !.status = 200]
                               /\ Commit(r.ag, r.bk)
            /\ UNCHANGED <<inflight, srv, config, windows, calls, mirror, backend, objects, now, nextToken>>

----------------------------------------------------------------------------
(* Environment: the client's PUT through the presigned URLs, the clock,    *)
(* the index maintenance and the TTL sweep of DynamoDB                     *)

\* the client uploads ciphertext and manifest to the URLs it was handed for
\* the record created at this instant
ClientPut ==
    \E id \in AgentIDs, ts \in Timestamps :
        /\ IsVisible(backups[<<id, ts>>])
        /\ backups[<<id, ts>>].created_at = now
        /\ ~({S3Key(id, ts), ManifestS3Key(id, ts)} \subseteq objects)
        /\ objects' = objects \cup {S3Key(id, ts), ManifestS3Key(id, ts)}
        /\ last' = NoReply
        /\ UNCHANGED <<inflight, srv, config, windows, calls, mirror, backend, agents, gsi, backups, now, nextToken>>

Tick ==
    /\ now < MaxTime
    /\ now' = now + 1
    /\ last' = NoReply
    /\ UNCHANGED <<inflight, srv, config, windows, calls, mirror, backend, agents, gsi, backups, objects, nextToken>>

\* the token-hash-index catches up with one agent item
GSIPropagate ==
    \E id \in AgentIDs :
        /\ gsi[id] # agents[id]
        /\ gsi' = [gsi EXCEPT ![id] = agents[id]]
        /\ last' = NoReply
        /\ UNCHANGED <<inflight, srv, config, windows, calls, mirror, backend, agents, backups, objects, now, nextToken>>

\* DynamoDB removes an item whose TTL attribute expires_at has passed
TTLExpire ==
    \E id \in AgentIDs, ts \in Timestamps :
        /\ backend = "dynamo"
        /\ backups[<<id, ts>>].exists
        /\ backups[<<id, ts>>].expires_at <= now
        /\ backups' = [backups EXCEPT ![<<id, ts>>] = NoBackup]
        /\ last' = NoReply
        /\ UNCHANGED <<inflight, srv, config, windows, calls, mirror, backend, agents, gsi, objects, now, nextToken>>

----------------------------------------------------------------------------
(* Specifications *)

\* agent 1 as Register and CreateAgent leave it (token 1), index caught up
Enrolled(status) ==
    [id \in AgentIDs |->
        IF id = 1
        THEN [exists |-> TRUE, token_hash |-> HashToken(1), status |-> status,
              quota_bytes |-> DefaultQuotaBytes, used_bytes |-> 0]
        ELSE NoAgent]

\* one registered agent that no admin has touched yet
InitGate ==
    /\ backend \in Backends
    /\ agents = Enrolled("")
    /\ gsi = agents
    /\ backups = [k \in AgentIDs \X Timestamps |-> NoBackup]
    /\ objects = {}
    /\ now = 0
    /\ nextToken = 2
    /\ last = NoReply
    /\ mirror = NoMirror
    /\ config = DefaultConfig
    /\ windows = NoWindows
    /\ calls = NoCalls
    /\ srv = Serving
    /\ inflight = NoRequests

\* one registered agent after AdminApproveAgent
InitBackups ==
    /\ backend \in Backends
    /\ agents = Enrolled("active")
    /\ gsi = agents
    /\ backups = [k \in AgentIDs \X Timestamps |-> NoBackup]
    /\ objects = {}
    /\ now = 0
    /\ nextToken = 2
    /\ last = NoReply
    /\ mirror = NoMirror
    /\ config = DefaultConfig
    /\ windows = NoWindows
    /\ calls = NoCalls
    /\ srv = Serving
    /\ inflight = NoRequests

NextAgents ==
    \/ Register
    \/ AgentInfo
    \/ RotateToken
    \/ AdminApproveAgent
    \/ AdminSuspendAgent
    \/ GSIPropagate

NextGate ==
    \/ AdminApproveAgent
    \/ AdminSuspendAgent
    \/ GSIPropagate
    \/ UploadURL
    \/ Handlers_DeleteBackup
    \/ Handlers_DeleteAllBackups
    \/ Handlers_UndeleteBackup

NextBackups ==
    \/ UploadURL
    \/ Handlers_ListBackups
    \/ Handlers_GetBackup
    \/ DownloadURL
    \/ Handlers_DeleteBackup
    \/ Handlers_DeleteAllBackups
    \/ Handlers_UndeleteBackup
    \/ AgentInfo
    \/ GSIPropagate

SpecAgents == Init /\ [][NextAgents]_vars

SpecGate == InitGate /\ [][NextGate]_vars

SpecBackups == InitBackups /\ [][NextBackups]_vars

\* uploads, deletions and restores of an approved agent while the clock
\* advances, clients store objects and DynamoDB expires items
NextRetention ==
    \/ UploadURL
    \/ ClientPut
    \/ Handlers_ListBackups
    \/ Handlers_DeleteBackup
    \/ Handlers_UndeleteBackup
    \/ Tick
    \/ TTLExpire

SpecRetention == InitBackups /\ [][NextRetention]_vars

----------------------------------------------------------------------------
(* The DataStore interface called directly, every call issued to a          *)
(* SQLiteStore (agents, backups) and to a DynamoStore (mirror) alike       *)

\* the fields of a Backup a caller can read
BackupView(b) ==
    [exists |-> b.exists, encrypted_bytes |-> b.encrypted_bytes,
     s3_key |-> b.s3_key, manifest_s3_key |-> b.manifest_s3_key,
     created_at |-> b.created_at]

InitStores ==
    /\ backend = "sqlite"
    /\ agents = [id \in AgentIDs |-> NoAgent]
    /\ gsi = agents
    /\ backups = [k \in AgentIDs \X Timestamps |-> NoBackup]
    /\ objects = {}
    /\ now = 0
    /\ nextToken = 1
    /\ last = NoReply
    /\ mirror = NoMirror
    /\ config = DefaultConfig
    /\ windows = NoWindows
    /\ calls = NoCalls
    /\ srv = Serving
    /\ inflight = NoRequests

\* the two stores handed back the same thing and show the same agents and
\* backups to a reader
StoresAgree ==
    /\ mirror.out = mirror.ref
    /\ \A id \in AgentIDs :
          /\ GetAgent("sqlite", agents, id) = GetAgent("dynamo", mirror.ag, id)
          /\ VisibleTimestamps(backups, id) = VisibleTimestamps(mirror.bk, id)
          /\ \A ts \in Timestamps :
                /\ IsSoftDeleted(backups[<<id, ts>>])
                      = IsSoftDeleted(mirror.bk[<<id, ts>>])
                /\ BackupView(backups[<<id, ts>>])
                      = BackupView(mirror.bk[<<id, ts>>])

\* both stores after the call, with what each handed back; the call
\* sequence is followed for as long as the stores have agreed
StoreCall(op, id, arg, sAg, sBk, sOut, dAg, dBk, dOut) ==
    /\ StoresAgree
    /\ Commit(sAg, sBk)
    /\ mirror' = [ag |-> dAg, bk |-> dBk, out |-> dOut, ref |-> sOut]
    /\ last' = [NoReply EXCEPT !.op = op, !.agent = id, !.ts = arg]
    /\ UNCHANGED <<inflight, srv, config, windows, calls, backend, objects, now, nextToken>>

Store_CreateAgent ==
    \E id \in AgentIDs, tok \in Tokens, status \in {"", "active"} :
        LET s == CreateAgent("sqlite", agents, id, HashToken(tok), status,
                             DefaultQuotaBytes)
            d == CreateAgent("dynamo", mirror.ag, id, HashToken(tok), status,
                             DefaultQuotaBytes)
        IN  StoreCall("CreateAgent", id, tok,
                      s.ag, backups, [NoOutcome EXCEPT !.err = s.err],
                      d.ag, mirror.bk, [NoOutcome EXCEPT !.err = d.err])

Store_GetAgent ==
    \E id \in AgentIDs :
        StoreCall("GetAgent", id, 0,
                  agents, backups,
                  [NoOutcome EXCEPT !.agent = GetAgent("sqlite", agents, id)],
                  mirror.ag, mirror.bk,
                  [NoOutcome EXCEPT !.agent = GetAgent("dynamo", mirror.ag, id)])

Store_CreateBackup ==
    \E id \in AgentIDs, ts \in Timestamps, bytes \in ByteSizes :
        /\ agents[id].exists /\ mirror.ag[id].exists
        /\ LET s == CreateBackup("sqlite", agents, backups, id, ts, bytes,
                                 S3Key(id, ts), ManifestS3Key(id, ts), now)
               d == CreateBackup("dynamo", mirror.ag, mirror.bk, id, ts, bytes,
                                 S3Key(id, ts), ManifestS3Key(id, ts), now)
           IN  StoreCall("CreateBackup", id, ts,
                         s.ag, s.bk, [NoOutcome EXCEPT !.err = s.err],
                         d.ag, d.bk, [NoOutcome EXCEPT !.err = d.err])

Store_ListBackups ==
    \E id \in AgentIDs, limit \in 0..MaxTimestamp :
        \E sl \in ListBackups("sqlite", backups, id, limit),
           dl \in ListBackups("dynamo", mirror.bk, id, limit) :
            StoreCall("ListBackups", id, 0,
                      agents, backups, [NoOutcome EXCEPT !.list = sl],
                      mirror.ag, mirror.bk, [NoOutcome EXCEPT !.list = dl])

Store_DeleteBackup ==
    \E id \in AgentIDs, ts \in Timestamps :
        /\ agents[id].exists /\ mirror.ag[id].exists
        /\ LET s == DeleteBackup("sqlite", agents, backups, id, ts, now)
               d == DeleteBackup("dynamo", mirror.ag, mirror.bk, id, ts, now)
           IN  StoreCall("DeleteBackup", id, ts,
                         s.ag, s.bk,
                         [NoOutcome EXCEPT !.backup = BackupView(s.ret)],
                         d.ag, d.bk,
                         [NoOutcome EXCEPT !.backup = BackupView(d.ret)])

Store_UndeleteBackup ==
    \E id \in AgentIDs, ts \in Timestamps :
        /\ agents[id].exists /\ mirror.ag[id].exists
        /\ LET s == UndeleteBackup("sqlite", agents, backups, id, ts, now)
               d == UndeleteBackup("dynamo", mirror.ag, mirror.bk, id, ts, now)
           IN  StoreCall("UndeleteBackup", id, ts,
                         s.ag, s.bk, [NoOutcome EXCEPT !.err = s.err],
                         d.ag, d.bk, [NoOutcome EXCEPT !.err = d.err])

NextStores ==
    \/ Store_CreateAgent
    \/ Store_GetAgent
    \/ Store_CreateBackup
    \/ Store_ListBackups
    \/ Store_DeleteBackup
    \/ Store_UndeleteBackup

SpecStores == InitStores /\ [][NextStores]_vars

----------------------------------------------------------------------------
(* Properties *)

MutatingOps == {"UploadURL", "DeleteBackup", "DeleteAllBackups", "UndeleteBackup"}

VisibleSum(a) == SumBytes(backups, a, VisibleTimestamps(backups, a))

C2_RotationRevokesOldToken ==
    (last.op = "RotateToken" /\ last.status = 200)
        => /\ LookupAgentByToken(backend, agents, gsi, last.tok) = {}
           /\ LookupAgentByToken(backend, agents, gsi, last.newtok) = {last.agent}

\* C3: a mutating endpoint answers 403 from the activeness gate exactly when
\* the status of the calling agent, as the store holds it, is not active;
\* a rejected call changes no backup record.
C3_MutationsGatedByStatus ==
    last.op \in MutatingOps
        => LET stored == ReadAgent(backend, agents[last.agent]).status
           IN  /\ stored # "active" => (last.status = 403 /\ last.why = "active")
               /\ stored = "active" => last.why # "active"

\* C4: ListBackups, GetBackup and download-url return no soft-deleted
\* backup, and GetBackup / download-url answer 404 for one.
C4_SoftDeletedNeverReturned ==
    /\ (last.op \in {"ListBackups", "GetBackup", "DownloadURL"} /\ last.status = 200)
          => \A i \in 1..Len(last.ret) :
                IsVisible(backups[<<last.agent, last.ret[i]>>])
    /\ (last.op \in {"GetBackup", "DownloadURL"}
          /\ IsSoftDeleted(backups[<<last.agent, last.ts>>]))
          => (last.status = 404 /\ last.urls = {})

\* download-url was asked for a soft-deleted backup
C4_Witness ==
    /\ last.op = "DownloadURL"
    /\ last.status = 404
    /\ IsSoftDeleted(backups[<<last.agent, last.ts>>])

\* C5: a successful register leaves a pending agent with used_bytes 0 and
\* the default quota, and its token resolves to exactly that agent.
C5_RegisterCreatesPendingAgent ==
    (last.op = "Register" /\ last.status = 201)
        => /\ agents[last.agent].exists
           /\ ReadAgent(backend, agents[last.agent]).status = "pending"
           /\ agents[last.agent].used_bytes = 0
           /\ agents[last.agent].quota_bytes = DefaultQuotaBytes
           /\ LookupAgentByToken(backend, agents, gsi, last.newtok) = {last.agent}

\* C6: at every moment each enrolled agent has exactly one token that
\* authenticates, the one whose hash register or rotate-token committed last.
C6_ExactlyOneLiveToken ==
    \A id \in AgentIDs :
        agents[id].exists
            => {t \in Tokens : id \in LookupAgentByToken(backend, agents, gsi, t)}
                 = {t \in Tokens : HashToken(t) = agents[id].token_hash}

\* C7: after a completed upload-url the agent has at most
\* MaxBackupsPerAgent visible backups.
C7_VisibleCountBounded ==
    (last.op = "UploadURL" /\ last.status = 200)
        => Cardinality(VisibleTimestamps(backups, last.agent)) <= MaxBackupsPerAgent

\* C8: an accepted upload-url of an agent that has MaxBackupsPerAgent
\* visible backups soft-deletes exactly one of them, the oldest, and the new
\* backup is visible.
C8_RotationSoftDeletesOldest ==
    [][(/\ last'.op = "UploadURL"
        /\ last'.status = 200
        /\ Cardinality(VisibleTimestamps(backups, last'.agent)) = MaxBackupsPerAgent)
       => LET a == last'.agent
              before == VisibleTimestamps(backups, a)
              gone == before \ VisibleTimestamps(backups', a)
          IN  /\ Cardinality(gone) = 1
              /\ \A ts \in gone :
                    /\ IsSoftDeleted(backups'[<<a, ts>>])
                    /\ \A o \in before :
                          backups[<<a, ts>>].created_at <= backups[<<a, o>>].created_at
              /\ IsVisible(backups'[<<a, last'.ts>>])]_vars

\* C9: an upload-url request that reaches the quota check with
\* used_bytes + encrypted_bytes > quota_bytes gets 403, creates no backup
\* record and gets no URL; with used_bytes + encrypted_bytes = quota_bytes
\* it is not rejected for quota and is answered 200 unless the store
\* refuses the record.
C9_QuotaBoundary ==
    [][(last'.op = "UploadURL" /\ last'.seen = "active" /\ last'.ts # EmptyTimestamp)
       => /\ last'.used + last'.bytes > last'.quota
                => /\ last'.status = 403
                   /\ last'.urls = {}
                   /\ backups' = backups
                   /\ agents' = agents
          /\ last'.used + last'.bytes <= last'.quota
                => /\ last'.status # 403
                   /\ \/ last'.status = 200 /\ IsVisible(backups'[<<last'.agent, last'.ts>>])
                      \/ backend = "sqlite" /\ backups[<<last'.agent, last'.ts>>].exists]_vars

\* an upload that fills the quota exactly has been accepted
C9_Witness ==
    /\ last.op = "UploadURL"
    /\ last.status = 200
    /\ last.bytes > 0
    /\ last.used > 0
    /\ last.used + last.bytes = last.quota

\* C10: an upload-url request with encrypted_bytes = 0 or
\* encrypted_bytes > MaxUploadBytes gets 400 and creates no backup record.
C10_SizeBounds ==
    (/\ last.op = "UploadURL"
     /\ last.seen = "active"
     /\ last.ts # EmptyTimestamp
     /\ (last.bytes = 0 \/ last.bytes > MaxUploadBytes))
        => last.status = 400

\* the visible backups of agent a created less than MinBackupIntervalTicks
\* before instant t
RecentVisible(bk, a, t) ==
    {ts \in VisibleTimestamps(bk, a) :
        t - bk[<<a, ts>>].created_at < MinBackupIntervalTicks}

\* C11: an upload-url request that is valid in every other respect and
\* arrives less than MinBackupIntervalTicks after the creation of a visible
\* backup of the agent gets 429 and creates no backup record; a request of
\* an agent without a visible backup is never answered 429.
C11_FrequencyLimit ==
    [][(/\ last'.op = "UploadURL"
        /\ last'.seen = "active"
        /\ last'.ts # EmptyTimestamp
        /\ last'.bytes > 0
        /\ last'.bytes <= MaxUploadBytes
        /\ last'.used + last'.bytes <= last'.quota)
       => /\ RecentVisible(backups, last'.agent, now) # {}
                => (last'.status = 429 /\ backups' = backups)
          /\ VisibleTimestamps(backups, last'.agent) = {}
                => last'.status # 429]_vars

\* C12: an upload-url request, valid in every other respect, for a timestamp
\* that already has a backup record of the agent is answered 200 with URLs,
\* and afterwards the record of that timestamp exists, is visible and is
\* counted once in used_bytes.
C12_RepeatedTimestampReminted ==
    [][(/\ last'.op = "UploadURL"
        /\ last'.seen = "active"
        /\ last'.ts # EmptyTimestamp
        /\ last'.bytes > 0
        /\ last'.bytes <= MaxUploadBytes
        /\ last'.used + last'.bytes <= last'.quota
        /\ backups[<<last'.agent, last'.ts>>].exists)
       => /\ last'.status = 200
          /\ last'.urls # {}
          /\ IsVisible(backups'[<<last'.agent, last'.ts>>])
          /\ agents'[last'.agent].used_bytes
                = SumBytes(backups', last'.agent,
                           VisibleTimestamps(backups', last'.agent))]_vars

C14_SoftDeleteKeepsObjects ==
    [][last'.op \in {"DeleteBackup", "DeleteAllBackups"}
          => objects \subseteq objects']_vars

\* C15: an undelete request that reaches the store for a timestamp that has
\* no record, or whose record is visible, is answered 404 and leaves every
\* backup record and every agent record (used_bytes included) as it was.
C15_UndeleteNeedsSoftDeleted ==
    [][(/\ last'.op = "UndeleteBackup"
        /\ last'.seen = "active"
        /\ LET b == backups[<<last'.agent, last'.ts>>]
           IN  ~b.exists \/ b.deleted_at = NULL)
       => /\ last'.status = 404
          /\ backups' = backups
          /\ agents' = agents]_vars

\* an undelete of a visible backup has been refused
C15_Witness ==
    /\ last.op = "UndeleteBackup"
    /\ last.status = 404
    /\ backups[<<last.agent, last.ts>>].exists
    /\ backups[<<last.agent, last.ts>>].deleted_at = NULL
    /\ backups[<<last.agent, last.ts>>].encrypted_bytes > 0

\* the instant the DELETE response is to report for a soft-deleted row
CanUndeleteUntil(b) == b.deleted_at + DeleteGraceTicks

\* C16: an undelete request for a soft-deleted backup is answered 200 when
\* it arrives before the deletion instant plus DeleteGraceTicks and 404
\* when it arrives after that instant.
C16_UndeleteWithinGraceOnly ==
    [][(/\ last'.op = "UndeleteBackup"
        /\ last'.seen = "active"
        /\ IsSoftDeleted(backups[<<last'.agent, last'.ts>>]))
       => LET b == backups[<<last'.agent, last'.ts>>]
          IN  /\ now < CanUndeleteUntil(b) => last'.status = 200
              /\ now > CanUndeleteUntil(b) => last'.status = 404]_vars

\* the retention specification with time passing and the DynamoDB TTL sweep
\* eventually removing every item whose expires_at has passed
SpecRetentionLive == SpecRetention /\ WF_vars(Tick) /\ WF_vars(TTLExpire)

\* soft-deleted row whose grace period is over
PurgeDue(b) == IsSoftDeleted(b) /\ CanUndeleteUntil(b) <= now

\* C17: a soft-deleted backup whose grace period is over is eventually
\* either gone from the store together with its two objects, or visible
\* again through an undelete.
C17_SoftDeletedEventuallyPurged ==
    \A a \in AgentIDs, ts \in Timestamps :
        PurgeDue(backups[<<a, ts>>])
            ~> \/ /\ ~backups[<<a, ts>>].exists
                  /\ {S3Key(a, ts), ManifestS3Key(a, ts)} \cap objects = {}
               \/ IsVisible(backups[<<a, ts>>])

\* C18: after every sequence of DataStore calls issued to both stores, the
\* SQLite store and the DynamoDB store have handed back the same outcome
\* for the last call (error or not, the same agent, the same backup, the
\* same list in the same order) and show the same agents (status and
\* used_bytes included), the same visible backups and the same soft-deleted
\* backups.
C18_StoresEquivalent == StoresAgree

\* the agents of table ag, other than id, that carry the hash of token tok
SameTokenHash(ag, id, tok) ==
    {o \in AgentIDs \ {id} : ag[o].exists /\ ag[o].token_hash = HashToken(tok)}

\* C19: a CreateAgent call whose id or token hash is that of an agent
\* already in the store returns an error and leaves the agents of that
\* store as they were; this is stated for the SQLite store and for the
\* DynamoDB store.
C19_CreateAgentRejectsCollision ==
    [][last'.op = "CreateAgent"
       => LET id == last'.agent
              tok == last'.ts
          IN  /\ (agents[id].exists \/ SameTokenHash(agents, id, tok) # {})
                    => (mirror'.ref.err /\ agents' = agents)
              /\ (mirror.ag[id].exists \/ SameTokenHash(mirror.ag, id, tok) # {})
                    => (mirror'.out.err /\ mirror'.ag = mirror.ag)]_vars

AgentStatuses == {"pending", "active", "suspended"}

\* C20: after every step each stored agent's status, as the store reads it
\* back, is pending, active or suspended, and a step that is not an admin
\* approve or suspend leaves the status of every agent already stored as it
\* was.
C20_StatusLifecycle ==
    [][/\ \A id \in AgentIDs :
             agents'[id].exists
                => ReadAgent(backend, agents'[id]).status \in AgentStatuses
       /\ last'.op \notin {"AdminApproveAgent", "AdminSuspendAgent"}
             => \A id \in AgentIDs :
                   agents[id].exists
                      => /\ agents'[id].exists
                         /\ ReadAgent(backend, agents'[id]).status
                               = ReadAgent(backend, agents[id]).status]_vars

----------------------------------------------------------------------------
(* Status changes of an enrolled agent next to its reads and uploads *)

\* agent 1 enrolled and not yet approved: with the empty status Register
\* leaves, or with the status pending that a caller of CreateAgent sets
InitStatus ==
    /\ backend \in Backends
    /\ \E status \in {"", "pending"} : agents = Enrolled(status)
    /\ gsi = agents
    /\ backups = [k \in AgentIDs \X Timestamps |-> NoBackup]
    /\ objects = {}
    /\ now = 0
    /\ nextToken = 2
    /\ last = NoReply
    /\ mirror = NoMirror
    /\ config = DefaultConfig
    /\ windows = NoWindows
    /\ calls = NoCalls
    /\ srv = Serving
    /\ inflight = NoRequests

NextStatus ==
    \/ AdminApproveAgent
    \/ AdminSuspendAgent
    \/ UploadURL
    \/ Handlers_ListBackups
    \/ Handlers_GetBackup
    \/ DownloadURL
    \/ AgentInfo
    \/ RotateToken
    \/ GSIPropagate

SpecStatus == InitStatus /\ [][NextStatus]_vars

\* C21: an admin approve of an id that no agent has is answered 404 and
\* leaves the agents as they were; an approve of an agent whose status reads
\* pending or suspended is answered 200 and the agent's status reads active
\* afterwards; an approve of an agent whose status reads active is answered
\* 200 and every agent reads as before.  An approve touches no agent but the
\* one named.
C21_ApproveTransitions ==
    [][last'.op = "AdminApproveAgent"
       => LET id == last'.agent
              before == GetAgent(backend, agents, id)
              after == GetAgent(backend, agents', id)
          IN  /\ ~agents[id].exists
                    => (last'.status = 404 /\ agents' = agents)
              /\ (agents[id].exists /\ before.status \in {"pending", "suspended"})
                    => /\ last'.status = 200
                       /\ after = [before EXCEPT !.status = "active"]
              /\ (agents[id].exists /\ before.status = "active")
                    => (last'.status = 200 /\ after = before)
              /\ \A o \in AgentIDs \ {id} : agents'[o] = agents[o]]_vars

\* an approve of an unknown id has been refused and no agent has that id
C21_Witness ==
    /\ last.op = "AdminApproveAgent"
    /\ last.status = 404
    /\ ~agents[last.agent].exists
    /\ \E o \in AgentIDs : agents[o].exists

ReadOps == {"ListBackups", "GetBackup", "DownloadURL", "AgentInfo", "RotateToken"}

\* C22: a list, get, download-url, agent-info or rotate-token request that
\* passed the token lookup is never answered 403, whatever the status of the
\* agent, and is answered from the store alone: list returns a result of
\* ListBackups, get and download-url answer 200 exactly when GetBackup finds
\* the backup, agent-info answers 200, and rotate-token answers 200 and
\* stores the hash of the new token.
C22_ReadsIgnoreStatus ==
    [][last'.op \in ReadOps
       => LET a == last'.agent
          IN  /\ last'.status # 403
              /\ last'.why # "active"
              /\ last'.op = "ListBackups"
                    => /\ last'.status = 200
                       /\ last'.ret \in ListBackups(backend, backups, a, last'.limit)
              /\ last'.op \in {"GetBackup", "DownloadURL"}
                    => last'.status = IF GetBackup(backups, a, last'.ts).exists
                                      THEN 200 ELSE 404
              /\ last'.op = "DownloadURL" /\ last'.status = 200
                    => last'.urls = {S3Key(a, last'.ts), ManifestS3Key(a, last'.ts)}
              /\ last'.op = "AgentInfo" => last'.status = 200
              /\ last'.op = "RotateToken"
                    => /\ last'.status = 200
                       /\ agents'[a].token_hash = HashToken(last'.newtok)]_vars

\* a suspended agent, seen as suspended by Auth, has been handed the
\* download URLs of one of its backups
C22_Witness ==
    /\ last.op = "DownloadURL"
    /\ last.status = 200
    /\ last.seen = "suspended"
    /\ agents[last.agent].status = "suspended"
    /\ last.urls # {}

----------------------------------------------------------------------------
(* The Authorization header in front of the bearer-protected endpoints *)

\* an Authorization header as the words it is made of: <<>> is the missing
\* header, <<"Bearer ", t>> the well-formed one, <<"", t>> the bare token
AuthHeaders ==
    {<<>>} \cup {<<scheme, t>> : scheme \in {"Bearer ", "bearer ", "Basic ", ""},
                                 t \in Tokens}

\* strings.TrimPrefix
TrimPrefix(s, prefix) == IF Len(s) > 0 /\ s[1] = prefix THEN Tail(s) ELSE s

\* Auth with a header it refuses before the token lookup: the header is
\* missing, or TrimPrefix leaves it as it was
AuthRejects ==
    \E auth \in AuthHeaders :
        /\ auth = <<>> \/ TrimPrefix(auth, "Bearer ") = auth
        /\ last' = [NoReply EXCEPT !.op = "Auth", !.status = 401,
                                   !.why = IF auth = <<>> THEN "missing"
                                           ELSE "format",
                                   !.ret = auth]
        /\ NoCommit
        /\ UNCHANGED <<inflight, srv, config, windows, calls, mirror, backend, objects, now, nextToken>>

\* an approved agent and a stranger's token against the bearer-protected
\* endpoints, while the agent rotates its token
NextAuth ==
    \/ AuthRejects
    \/ AgentInfo
    \/ RotateToken
    \/ UploadURL
    \/ GSIPropagate

SpecAuth == InitBackups /\ [][NextAuth]_vars

BearerOps == MutatingOps \cup ReadOps

\* the table LookupAgentByToken reads
TokenTable == IF backend = "dynamo" THEN gsi ELSE agents

\* C23: a request whose Authorization header is missing or does not start
\* with "Bearer ", or whose token's hash is the token_hash of no agent, is
\* answered 401 and leaves agents, index, backups and objects as they were;
\* a wrapped handler runs only for a token whose hash is the token_hash of
\* an agent, and the agent it sees is that agent as the lookup read it.
C23_AuthGate ==
    [][/\ last'.op = "Auth"
             => /\ last'.status = 401
                /\ agents' = agents /\ gsi' = gsi
                /\ backups' = backups /\ objects' = objects
                /\ last'.why \in {"missing", "format"}
                      => (last'.ret = <<>> \/ last'.ret[1] # "Bearer ")
                /\ last'.why = "auth"
                      => \A id \in AgentIDs :
                            ~(/\ TokenTable[id].exists
                              /\ TokenTable[id].token_hash = HashToken(last'.tok))
       /\ last'.op \in BearerOps
             => LET a == last'.agent
                IN  /\ a \in AgentIDs
                    /\ TokenTable[a].exists
                    /\ TokenTable[a].token_hash = HashToken(last'.tok)
                    /\ last'.seen = ReadAgent(backend, TokenTable[a]).status
                    /\ last'.quota = TokenTable[a].quota_bytes
                    /\ last'.status # 401]_vars

\* the token the agent held before its rotation has been refused
C23_Witness ==
    /\ last.op = "Auth"
    /\ last.status = 401
    /\ last.why = "auth"
    /\ \E id \in AgentIDs :
          /\ agents[id].exists
          /\ agents[id].token_hash # HashToken(last.tok)
          /\ agents[id].token_hash # HashToken(1)
    /\ last.tok = 1

----------------------------------------------------------------------------
(* The admin key in front of the admin endpoints *)

KeyChars == {"a", "b", ",", " "}

\* the strings of at most n characters
StringsUpTo(n) == UNION {[1..k -> KeyChars] : k \in 0..n}

\* values of ADMIN_API_KEY and of the X-API-Key header (<<>>: not set)
AdminKeyConfigs == StringsUpTo(MaxKeyLen + 1)

XAPIKeys == StringsUpTo(MaxKeyLen - 1)

RECURSIVE Split(_, _)
\* strings.Split
Split(s, sep) ==
    IF \E i \in 1..Len(s) : s[i] = sep
    THEN LET i == CHOOSE k \in 1..Len(s) :
                     s[k] = sep /\ \A j \in 1..(k - 1) : s[j] # sep
         IN  <<SubSeq(s, 1, i - 1)>> \o Split(SubSeq(s, i + 1, Len(s)), sep)
    ELSE <<s>>

RECURSIVE TrimSpace(_)
\* strings.TrimSpace
TrimSpace(s) ==
    IF Len(s) > 0 /\ s[1] = " " THEN TrimSpace(Tail(s))
    ELSE IF Len(s) > 0 /\ s[Len(s)] = " " THEN TrimSpace(SubSeq(s, 1, Len(s) - 1))
    ELSE s

\* APIKeyAuth comparing the header with the entries as they are written.
APIKeyAcceptedUntrimmed(apiKeys, provided) ==
    \/ apiKeys = <<>>
    \/ LET keys == Split(apiKeys, ",")
       IN  \E i \in 1..Len(keys) : keys[i] = provided

\* APIKeyAuth lets the request through: no key configured, or the header
\* equals one of the trimmed entries of the comma-separated list
APIKeyAccepted(apiKeys, provided) ==
    \/ apiKeys = <<>>
    \/ LET keys == Split(apiKeys, ",")
       IN  \E i \in 1..Len(keys) : TrimSpace(keys[i]) = provided

\* an admin endpoint behind APIKeyAuth
APIKeyAuth(op, status) ==
    \E provided \in XAPIKeys, id \in AgentIDs :
        /\ IF ~APIKeyAccepted(config.AdminAPIKey, provided)
           THEN /\ last' = [NoReply EXCEPT !.op = "APIKeyAuth", !.status = 401,
                                           !.ret = provided]
                /\ NoCommit
           ELSE LET r == UpdateAgentStatus(backend, agents, id, status)
                IN  /\ Commit(r.ag, backups)
                    /\ last' = [NoReply EXCEPT
                                   !.op = op, !.agent = id, !.ret = provided,
                                   !.status = IF r.err THEN 404 ELSE 200]
        /\ UNCHANGED <<inflight, srv, config, windows, calls, mirror, backend, objects, now,
                       nextToken>>

APIKeyAuth_ApproveAgent == APIKeyAuth("AdminApproveAgent", "active")

APIKeyAuth_SuspendAgent == APIKeyAuth("AdminSuspendAgent", "suspended")

\* a service started with any value of ADMIN_API_KEY, one agent enrolled
InitAdminKey ==
    /\ backend = "sqlite"
    /\ agents = Enrolled("pending")
    /\ gsi = agents
    /\ backups = [k \in AgentIDs \X Timestamps |-> NoBackup]
    /\ objects = {}
    /\ now = 0
    /\ nextToken = 2
    /\ last = NoReply
    /\ mirror = NoMirror
    /\ \E key \in AdminKeyConfigs : config = [DefaultConfig EXCEPT !.AdminAPIKey = key]
    /\ windows = NoWindows
    /\ calls = NoCalls
    /\ srv = Serving
    /\ inflight = NoRequests

NextAdminKey ==
    \/ APIKeyAuth_ApproveAgent
    \/ APIKeyAuth_SuspendAgent

SpecAdminKey == InitAdminKey /\ [][NextAdminKey]_vars

\* key is the text between two neighbouring separators of list (or an end
\* of list) without the spaces at its ends
KeyListed(list, key) ==
    \E i \in 1..(Len(list) + 1), j \in 0..Len(list) :
        /\ i <= j + 1
        /\ i = 1 \/ list[i - 1] = ","
        /\ j = Len(list) \/ list[j + 1] = ","
        /\ \A k \in i..j : list[k] # ","
        /\ \E a \in i..(j + 1), b \in (i - 1)..j :
              /\ a <= b + 1
              /\ \A k \in i..(a - 1) : list[k] = " "
              /\ \A k \in (b + 1)..j : list[k] = " "
              /\ a <= b => (list[a] # " " /\ list[b] # " ")
              /\ SubSeq(list, a, b) = key

AdminOps == {"AdminApproveAgent", "AdminSuspendAgent"}

----------------------------------------------------------------------------
(* The rate limiter in front of the register route.  Requests are served   *)
(* by concurrent goroutines and inMemoryRateLimiter holds no lock, so a    *)
(* request reads the window of its client in one step and stores the new   *)
(* window in a later one; the increment w.count++ may store one more than  *)
(* the count it checked or one more than the count it finds at that moment.*)

RegisterRateLimits == 0..MaxRateLimit

\* an empty store (the limiter is the same in front of either backend) and
\* a service started with any REGISTER_RATE_LIMIT
InitRateLimit ==
    /\ backend = "sqlite"
    /\ agents = [id \in AgentIDs |-> NoAgent]
    /\ gsi = agents
    /\ backups = [k \in AgentIDs \X Timestamps |-> NoBackup]
    /\ objects = {}
    /\ now = 0
    /\ nextToken = 1
    /\ last = NoReply
    /\ mirror = NoMirror
    /\ \E limit \in RegisterRateLimits :
          config = [DefaultConfig EXCEPT !.RegisterRateLimit = limit]
    /\ windows = NoWindows
    /\ calls = NoCalls
    /\ srv = Serving
    /\ inflight = NoRequests

\* inMemoryRateLimiter.Allow up to its decision, and the 429 of RateLimit
\* when the decision is no; a new request takes the first idle goroutine
RateLimit_Allow(r) ==
    \E ip \in ClientIPs :
        LET w == windows[ip]
            admit(window) ==
                /\ calls' = [calls EXCEPT
                                !.slot[r] = [pc |-> "store", ip |-> ip, at |-> now,
                                             window |-> window]]
                /\ last' = NoReply
        IN  /\ calls.slot[r].pc = "idle"
            /\ \A q \in 1..(r - 1) : calls.slot[q].pc # "idle"
            /\ IF ~w.exists \/ now - w.windowStart > WindowTicks
               THEN admit([exists |-> TRUE, count |-> 1, windowStart |-> now])
               ELSE IF w.count >= config.RegisterRateLimit
               THEN /\ last' = [NoReply EXCEPT !.op = "RateLimit", !.agent = ip,
                                               !.status = 429, !.why = "Retry-After: 60"]
                    /\ UNCHANGED calls
               ELSE admit([w EXCEPT !.count = w.count + 1])
            /\ NoCommit
            /\ UNCHANGED <<inflight, srv, config, windows, mirror, backend, objects, now, nextToken>>

\* the rest of an admitted request: Allow stores the window and returns
\* true, RateLimit calls Handlers.Register
RateLimit_Next(r) ==
    LET c == calls.slot[r]
        fresh == [windows[c.ip] EXCEPT !.count = @ + 1]
    IN  /\ c.pc = "store"
        /\ \E stored \in {c.window} \cup
                         (IF c.window.count > 1 /\ windows[c.ip].exists
                          THEN {fresh} ELSE {}) :
              /\ windows' = [windows EXCEPT ![c.ip] = stored]
              /\ calls' = [calls EXCEPT
                              !.slot[r] = IdleCall,
                              !.served[c.ip] =
                                  [t \in 0..MaxTime |->
                                      (IF t < stored.windowStart THEN 0 ELSE @[t])
                                      + (IF t = c.at THEN 1 ELSE 0)]]
        /\ Handlers_Register

NextRateLimit ==
    \/ \E r \in 1..MaxCalls : RateLimit_Allow(r)
    \/ \E r \in 1..MaxCalls : RateLimit_Next(r)
    \/ Tick

SpecRateLimit == InitRateLimit /\ [][NextRateLimit]_vars

\* the number of requests of a client handed to the handler at an instant of
\* the window that starts at instant start
RECURSIVE ServedInWindow(_, _, _)
ServedInWindow(served, start, t) ==
    IF t > MaxTime \/ t > start + WindowTicks THEN 0
    ELSE (IF t >= start THEN served[t] ELSE 0)
         + ServedInWindow(served, start, t + 1)

\* C25: for every client and every window of the limiter, the requests of
\* the client handed to Handlers.Register at an instant of the window number
\* at most RegisterRateLimit; once that many have been handed on, a further
\* request of the client in the window is not admitted; and a request
\* answered 429 carries Retry-After: 60 and changes no agent.
C25_RegisterRateBound ==
    [][/\ \A ip \in ClientIPs :
             windows'[ip].exists
                => ServedInWindow(calls'.served[ip], windows'[ip].windowStart, 0)
                      <= config.RegisterRateLimit
       /\ \A r \in 1..MaxCalls :
             (calls.slot[r].pc = "idle" /\ calls'.slot[r].pc = "store")
                => LET ip == calls'.slot[r].ip
                   IN  (windows[ip].exists
                          /\ now - windows[ip].windowStart <= WindowTicks)
                          => ServedInWindow(calls.served[ip],
                                            windows[ip].windowStart, 0)
                                < config.RegisterRateLimit
       /\ last'.op = "RateLimit"
             => /\ last'.status = 429
                /\ last'.why = "Retry-After: 60"
                /\ agents' = agents]_vars

----------------------------------------------------------------------------
(* Registrations while agents wait for approval *)

\* CountAgentsByStatus: SELECT COUNT(*) ... WHERE status = ? / Scan with the
\* filter #s = :s, both on the stored value
CountAgentsByStatus(ag, status) ==
    Cardinality({id \in AgentIDs : ag[id].exists /\ ag[id].status = status})

NextPending ==
    \/ Register
    \/ AdminApproveAgent
    \/ AdminSuspendAgent
    \/ GSIPropagate

\* an agent waiting for approval, further registrations and the admin
SpecPending == InitStatus /\ [][NextPending]_vars

\* C26: a register request with a valid body that arrives while at least
\* MaxPendingAgents agents are stored with status pending is answered 503
\* and leaves the agents as they were.
C26_PendingFloodRejected ==
    [][(/\ last'.op = "Register"
        /\ last'.status # 400
        /\ CountAgentsByStatus(agents, "pending") >= config.MaxPendingAgents)
       => (last'.status = 503 /\ agents' = agents)]_vars

----------------------------------------------------------------------------
(* Presigned uploads *)

\* the object store's answer to a PUT of n bytes through a presigned URL: a
\* URL signed with a Content-Length admits only a body of that length
PutAccepted(url, n) == url.content_length = NULL \/ url.content_length = n

\* the client PUTs a body of any length through one of the URLs the last
\* upload-url reply handed it
ClientPut_URL ==
    \E url \in (IF last.op = "UploadURL" /\ last.status = 200
                THEN last.urls ELSE {}),
       n \in ByteSizes :
        /\ objects' = IF PutAccepted(url, n) THEN objects \cup {url.key}
                      ELSE objects
        /\ last' = [NoReply EXCEPT
                       !.op = "ClientPut", !.agent = last.agent, !.ts = last.ts,
                       !.ret = url.key, !.bytes = n,
                       !.status = IF PutAccepted(url, n) THEN 200 ELSE 403]
        /\ NoCommit
        /\ UNCHANGED <<inflight, srv, config, windows, calls, mirror, backend, now, nextToken>>

\* an approved agent asks for upload URLs, naming files or not, and uploads
\* through them
NextUpload ==
    \/ UploadURL_Files
    \/ ClientPut_URL
    \/ GSIPropagate

SpecUpload == InitBackups /\ [][NextUpload]_vars

\* C27: a PUT through the URL minted for the ciphertext object of a backup
\* whose body length differs from the encrypted_bytes declared for that
\* backup is refused by the object store and stores nothing; the URL minted
\* for the manifest object carries no length.
C27_CiphertextLengthBound ==
    [][/\ (/\ last'.op = "ClientPut"
           /\ last'.ret = S3Key(last'.agent, last'.ts)
           /\ last'.bytes # backups[<<last'.agent, last'.ts>>].encrypted_bytes)
          => (last'.status # 200 /\ objects' = objects)
       /\ (last'.op = "UploadURL" /\ last'.status = 200)
          => \A url \in last'.urls :
                url.key = ManifestS3Key(last'.agent, last'.ts)
                   => url.content_length = NULL]_vars

\* the two object keys of a backup as the key layout names them
LayoutKeys(a, ts) ==
    {ObjectKey(a, ts, "backup.ciphertext"), ObjectKey(a, ts, "manifest.meta")}

\* C28: after an accepted upload-url the backup record's blob key and
\* manifest key, and the key of every URL in the reply, are among
\* <agent>/<timestamp>/backup.ciphertext and <agent>/<timestamp>/manifest.meta
\* of the authenticated agent and the request's timestamp, whatever file
\* names the request carried.
C28_KeysDerivedFromAgentAndTimestamp ==
    [][(last'.op = "UploadURL" /\ last'.status = 200)
       => LET a == last'.agent
              ts == last'.ts
          IN  /\ backups'[<<a, ts>>].s3_key \in LayoutKeys(a, ts)
              /\ backups'[<<a, ts>>].manifest_s3_key \in LayoutKeys(a, ts)
              /\ \A url \in last'.urls : url.key \in LayoutKeys(a, ts)]_vars

\* ---------------------------------------------------------------------
\* DELETE /v1/backups

\* C29: after a successful DELETE /v1/backups the agent has no visible
\* backup and used_bytes 0, deleted_count is the number of backups that
\* were visible before the call, and the backups counted are exactly the
\* ones the call soft-deleted.
C29_DeleteAllEmptiesAgent ==
    [][(last'.op = "DeleteAllBackups" /\ last'.status = 200)
       => LET a == last'.agent
              before == VisibleTimestamps(backups, a)
              marked == {ts \in before : IsSoftDeleted(backups'[<<a, ts>>])}
          IN  /\ VisibleTimestamps(backups', a) = {}
              /\ agents'[a].used_bytes = 0
              /\ last'.count = Cardinality(before)
              /\ SeqRange(last'.ret) = marked]_vars

\* ---------------------------------------------------------------------
\* ListBackups

\* C30: ListBackups(agent, limit) returns exactly min(limit, number of the
\* agent's visible backups) records, a non-positive limit counting as 100;
\* the records are distinct visible backups of the agent, in descending
\* created_at order, and no visible backup left out is more recent than
\* one returned.  Stated for both backends.
C30_ListNewestVisible ==
    (last.op = "ListBackups" /\ last.status = 200)
        => LET a == last.agent
               s == last.ret
               vis == VisibleTimestamps(backups, a)
               n == Min(EffectiveLimit(last.limit), Cardinality(vis))
           IN  /\ Len(s) = n
               /\ \A i \in 1..Len(s) : s[i] \in vis
               /\ \A i, j \in 1..Len(s) : i # j => s[i] # s[j]
               /\ \A i, j \in 1..Len(s) :
                     i < j => backups[<<a, s[i]>>].created_at
                                 >= backups[<<a, s[j]>>].created_at
               /\ \A ts \in vis \ SeqRange(s) : \A i \in 1..Len(s) :
                     backups[<<a, ts>>].created_at
                         <= backups[<<a, s[i]>>].created_at

\* ---------------------------------------------------------------------
\* upload-url admission order

\* C31: upload-url checks the timestamp (400), the size bounds (400), the
\* quota (403) and the frequency (429) in that order and answers with the
\* status of the first check that fails; a rejected request leaves the
\* backup records as they were and returns no URL.
C31_AdmissionOrder ==
    [][(last'.op = "UploadURL" /\ last'.seen = "active")
       => LET r == last'
              badTimestamp == r.ts = EmptyTimestamp
              badSize == r.bytes = 0 \/ r.bytes > MaxUploadBytes
              overQuota == r.used + r.bytes > r.quota
              tooSoon == RecentVisible(backups, r.agent, now) # {}
          IN  /\ badTimestamp => r.status = 400
              /\ (~badTimestamp /\ badSize) => r.status = 400
              /\ (~badTimestamp /\ ~badSize /\ overQuota) => r.status = 403
              /\ (~badTimestamp /\ ~badSize /\ ~overQuota /\ tooSoon)
                    => r.status = 429
              /\ r.status \in {400, 403, 429}
                    => (backups' = backups /\ r.urls = {})]_vars

\* ---------------------------------------------------------------------
\* Backup lifecycle

\* C32: a backup record changes state only along the lifecycle: visible to
\* invisible only by a soft-delete (delete, delete-all, or the rotation of
\* an upload-url for another timestamp), soft-deleted to visible only by
\* its undelete, and removed only when soft-deleted with its purge instant
\* (deleted_at + grace) passed.
C32_LifecycleOnly ==
    [][\A a \in AgentIDs, ts \in Timestamps :
          LET b == backups[<<a, ts>>]
              c == backups'[<<a, ts>>]
          IN  /\ (IsVisible(b) /\ ~IsVisible(c))
                    => /\ IsSoftDeleted(c)
                       /\ last'.agent = a
                       /\ \/ last'.op = "DeleteBackup" /\ last'.ts = ts
                          \/ last'.op = "DeleteAllBackups"
                          \/ last'.op = "UploadURL" /\ last'.ts # ts
              /\ (IsSoftDeleted(b) /\ IsVisible(c))
                    => /\ last'.op = "UndeleteBackup"
                       /\ last'.agent = a
                       /\ last'.ts = ts
              /\ (b.exists /\ ~c.exists)
                    => (IsSoftDeleted(b) /\ CanUndeleteUntil(b) <= now)]_vars

\* ---------------------------------------------------------------------
\* Graceful shutdown of the HTTP server (main)

Others == <<backend, agents, gsi, backups, objects, now, nextToken, last,
            mirror, config, windows, calls, inflight>>

\* the listener accepts a connection and a handler goroutine starts
Server_Accept(r) ==
    /\ srv.main = "ListenAndServe"
    /\ srv.listening
    /\ srv.conn[r] = "none"
    /\ srv' = [srv EXCEPT !.conn[r] = "handling"]
    /\ UNCHANGED Others

\* a handler goroutine writes its response; it runs as long as the process
\* lives
Server_Respond(r) ==
    /\ srv.main # "exited"
    /\ srv.conn[r] = "handling"
    /\ srv' = [srv EXCEPT !.conn[r] = "done"]
    /\ UNCHANGED Others

\* SIGINT/SIGTERM arrives: the goroutine leaves <-sigCh and calls
\* srv.Shutdown(shutdownCtx), which closes the listener at once
Signal ==
    /\ srv.main = "ListenAndServe"
    /\ srv.shutdown = "waiting"
    /\ srv' = [srv EXCEPT
                  !.shutdown = "Shutdown",
                  !.listening = FALSE,
                  !.deadline = now + ShutdownTicks,
                  !.atSignal = {r \in 1..MaxCalls : srv.conn[r] = "handling"}]
    /\ UNCHANGED Others

\* srv.Shutdown returns once no connection is being served or the context
\* has timed out
Shutdown_Returns ==
    /\ srv.main # "exited"
    /\ srv.shutdown = "Shutdown"
    /\ \/ \A r \in 1..MaxCalls : srv.conn[r] # "handling"
       \/ now >= srv.deadline
    /\ srv' = [srv EXCEPT !.shutdown = "returned"]
    /\ UNCHANGED Others

\* ListenAndServe returns http.ErrServerClosed as soon as Shutdown has been
\* called; main falls through to its end
ListenAndServe_Returns ==
    /\ srv.main = "ListenAndServe"
    /\ ~srv.listening
    /\ srv' = [srv EXCEPT !.main = "deferred"]
    /\ UNCHANGED Others

\* main's deferred store.Close()
Store_Close ==
    /\ srv.main = "deferred"
    /\ srv' = [srv EXCEPT !.main = "return", !.storeOpen = FALSE]
    /\ UNCHANGED Others

\* main returns: the process ends and with it every goroutine
Process_Exit ==
    /\ srv.main = "return"
    /\ srv' = [srv EXCEPT
                  !.main = "exited",
                  !.conn = [r \in 1..MaxCalls |->
                               IF srv.conn[r] = "handling" THEN "killed"
                               ELSE srv.conn[r]]]
    /\ UNCHANGED Others

NextShutdown ==
    \/ \E r \in 1..MaxCalls : Server_Accept(r)
    \/ \E r \in 1..MaxCalls : Server_Respond(r)
    \/ Signal
    \/ Shutdown_Returns
    \/ ListenAndServe_Returns
    \/ Store_Close
    \/ Process_Exit
    \/ Tick

SpecShutdown == InitBackups /\ [][NextShutdown]_vars

\* C33: after the signal no new connection is accepted, and while a
\* request that was in flight at signal time has not completed and fewer
\* than 10 s have passed since the signal, the store is not closed and
\* the process has not terminated.
C33_GracefulShutdown ==
    [][/\ ~srv.listening
          => \A r \in 1..MaxCalls :
                srv.conn[r] = "none" => srv'.conn[r] = "none"
       /\ \A r \in srv'.atSignal :
             (srv'.conn[r] # "done" /\ now' < srv'.deadline)
                => (srv'.storeOpen /\ srv'.main # "exited")]_vars

\* ---------------------------------------------------------------------
\* Requests during which one store or object-store call fails

\* an authenticated request of an active agent during which the call
\* named fault fails; the reply records the call
Failing(op, tok, id, agent, fault) ==
    [Request(op, tok, id, agent) EXCEPT !.failed = fault]

\* GET /v1/agents/me: both results of the refresh are dropped
\* (h.store.UpdateUsedBytes(agent.ID); updated, _ := h.store.GetAgent)
AgentInfo_Failing ==
    \E tok \in Tokens, fault \in {"UpdateUsedBytes", "GetAgent"} :
        LET found == LookupAgentByToken(backend, agents, gsi, tok)
        IN  /\ found # {}
            /\ \E id \in found :
                 LET agent == ContextAgent(backend, agents, gsi, id)
                     ag2 == IF fault = "UpdateUsedBytes" THEN agents
                            ELSE UpdateUsedBytes(backend, agents, backups, id)
                     updated == IF fault = "GetAgent" THEN agent
                                ELSE GetAgent(backend, ag2, id)
                 IN  /\ Commit(ag2, backups)
                     /\ last' = [Failing("AgentInfo", tok, id, agent, fault) EXCEPT
                                    !.status = 200,
                                    !.used = updated.used_bytes]
            /\ UNCHANGED <<inflight, srv, config, windows, calls, mirror, backend, objects, now, nextToken>>

\* GET /v1/backups: both store errors are answered with 500
ListBackups_Failing ==
    \E tok \in Tokens, fault \in {"CountBackups", "ListBackups"} :
        LET found == LookupAgentByToken(backend, agents, gsi, tok)
        IN  /\ found # {}
            /\ \E id \in found :
                 LET agent == ContextAgent(backend, agents, gsi, id)
                 IN  /\ last' = [Failing("ListBackups", tok, id, agent, fault) EXCEPT
                                    !.status = 500, !.why = "store"]
                     /\ NoCommit
            /\ UNCHANGED <<inflight, srv, config, windows, calls, mirror, backend, objects, now, nextToken>>

\* POST /v1/backups/upload-url: a failing PresignPut or CreateBackup is
\* answered with 500; CreateBackup returns the error of UpdateUsedBytes
\* after the row has been written
UploadURL_Failing ==
    \E tok \in Tokens, ts \in Timestamps, bytes \in ByteSizes,
       fault \in {"PresignPut", "Exec", "UpdateUsedBytes"} :
        LET found == LookupAgentByToken(backend, agents, gsi, tok)
        IN  /\ found # {}
            /\ \E id \in found :
                 LET agent == ContextAgent(backend, agents, gsi, id)
                     r == CreateBackup(backend, agents, backups, id, ts, bytes,
                                       S3Key(id, ts), ManifestS3Key(id, ts), now)
                 IN  /\ RequireActive(agent)
                     /\ ~QuotaExceeded(agent.used_bytes, bytes, agent.quota_bytes)
                     /\ ~r.err
                     /\ last' = [Failing("UploadURL", tok, id, agent, fault) EXCEPT
                                    !.ts = ts, !.bytes = bytes,
                                    !.status = 500, !.why = "store"]
                     /\ IF fault = "UpdateUsedBytes"
                        THEN Commit(agents, r.bk)
                        ELSE NoCommit
            /\ UNCHANGED <<inflight, srv, config, windows, calls, mirror, backend, objects, now, nextToken>>

\* DELETE /v1/backups/{timestamp}: the store returns the error of GetBackup
\* and of the UPDATE / UpdateItem, and drops the one of UpdateUsedBytes
\* (_ = s.UpdateUsedBytes(agentID))
DeleteBackup_Failing ==
    \E tok \in Tokens, ts \in Timestamps,
       fault \in {"GetBackup", "Exec", "UpdateUsedBytes"} :
        LET found == LookupAgentByToken(backend, agents, gsi, tok)
        IN  /\ found # {}
            /\ \E id \in found :
                 LET agent == ContextAgent(backend, agents, gsi, id)
                     req == [Failing("DeleteBackup", tok, id, agent, fault) EXCEPT
                                !.ts = ts]
                     r == DeleteBackup(backend, agents, backups, id, ts, now)
                 IN  /\ RequireActive(agent)
                     /\ fault # "GetBackup" => r.ret.exists
                     /\ IF fault = "UpdateUsedBytes"
                        THEN /\ last' = [req EXCEPT !.status = 200, !.ret = <<ts>>]
                             /\ Commit(agents, r.bk)
                             /\ objects' = DeleteBackupObjects(objects, r.ret)
                        ELSE /\ last' = [req EXCEPT !.status = 500, !.why = "store"]
                             /\ NoCommit
                             /\ UNCHANGED objects
            /\ UNCHANGED <<inflight, srv, config, windows, calls, mirror, backend, now, nextToken>>

\* DELETE /v1/backups: a failing listing is answered with 500; sqlite
\* returns the error of its UPDATE, dynamo drops the error of every
\* UpdateItem (_, _ = s.client.UpdateItem), both drop the one of
\* UpdateUsedBytes
DeleteAllBackups_Failing ==
    \E tok \in Tokens, fault \in {"ListBackups", "Exec", "UpdateUsedBytes"} :
        LET found == LookupAgentByToken(backend, agents, gsi, tok)
        IN  /\ found # {}
            /\ \E id \in found :
                 LET agent == ContextAgent(backend, agents, gsi, id)
                     req == Failing("DeleteAllBackups", tok, id, agent, fault)
                 IN  /\ RequireActive(agent)
                     /\ \E listed \in ListBackups(backend, backups, id,
                                                  DeleteAllListLimit) :
                          LET r == DeleteAllBackups(backend, agents, backups,
                                                    id, now, listed)
                              ok == [req EXCEPT !.status = 200, !.ret = listed,
                                                !.count = Len(listed)]
                          IN  /\ fault # "ListBackups" => listed # <<>>
                              /\ IF fault = "UpdateUsedBytes"
                                 THEN /\ last' = ok
                                      /\ Commit(agents, r.bk)
                                      /\ objects' = DeleteAllObjects(
                                                      objects, backups, id,
                                                      SeqRange(listed))
                                 ELSE IF fault = "Exec" /\ backend = "dynamo"
                                 THEN /\ last' = ok
                                      /\ Commit(UpdateUsedBytes(backend, agents,
                                                                backups, id),
                                                backups)
                                      /\ objects' = DeleteAllObjects(
                                                      objects, backups, id,
                                                      SeqRange(listed))
                                 ELSE /\ last' = [req EXCEPT !.status = 500,
                                                             !.why = "store"]
                                      /\ NoCommit
                                      /\ UNCHANGED objects
            /\ UNCHANGED <<inflight, srv, config, windows, calls, mirror, backend, now, nextToken>>

\* the stores' UndeleteBackup when UpdateUsedBytes fails after the row has
\* been restored: the error is dropped and the call reports success
UndeleteBackup_Failing ==
    \E tok \in Tokens, ts \in Timestamps, fault \in {"UpdateUsedBytes"} :
        LET found == LookupAgentByToken(backend, agents, gsi, tok)
        IN  /\ found # {}
            /\ \E id \in found :
                 LET agent == ContextAgent(backend, agents, gsi, id)
                     req == [Failing("UndeleteBackup", tok, id, agent, fault) EXCEPT
                                !.ts = ts]
                     r == UndeleteBackup(backend, agents, backups, id, ts, now)
                 IN  /\ RequireActive(agent)
                     /\ ~r.err
                     /\ last' = [req EXCEPT !.status = 200]
                     /\ Commit(agents, r.bk)
            /\ UNCHANGED <<inflight, srv, config, windows, calls, mirror, backend, objects, now, nextToken>>

NextFailing ==
    \/ UploadURL
    \/ Handlers_DeleteBackup
    \/ AgentInfo
    \/ AgentInfo_Failing
    \/ ListBackups_Failing
    \/ UploadURL_Failing
    \/ DeleteBackup_Failing
    \/ DeleteAllBackups_Failing
    \/ UndeleteBackup_Failing
    \/ GSIPropagate

SpecFailing == InitBackups /\ [][NextFailing]_vars

\* C34: whenever a store or object-store call made while serving a request
\* fails, the request is answered with 500 (in particular not with 2xx).
C34_FailuresAnswered500 ==
    last.failed # "none" => last.status = 500

\* ---------------------------------------------------------------------
\* Requests of one agent served concurrently: the middleware reads the
\* agent, the handler's store calls follow as separate steps

\* Auth and RequireActive pass: the agent read now travels in the request
\* context to the handler
Auth_RequireActive(r, Ops) ==
    \E tok \in Tokens, op \in Ops, ts \in Timestamps, bytes \in ByteSizes :
        LET found == LookupAgentByToken(backend, agents, gsi, tok)
        IN  /\ inflight[r].pc = "idle"
            /\ \A q \in 1..(r - 1) : inflight[q].pc # "idle"
            /\ op # "UploadURL" => bytes = 0
            /\ op = "DeleteAllBackups" => ts = 1
            /\ found # {}
            /\ \E id \in found :
                 LET agent == ContextAgent(backend, agents, gsi, id)
                 IN  /\ RequireActive(agent)
                     /\ inflight' = [inflight EXCEPT ![r] =
                                        [IdleRequest EXCEPT
                                            !.pc = "authed", !.op = op,
                                            !.agent = id, !.ctx = agent,
                                            !.ts = ts, !.bytes = bytes]]
            /\ last' = NoReply
            /\ UNCHANGED <<backend, agents, gsi, backups, objects, now, nextToken,
                       mirror, config, windows, calls, srv>>

\* Handlers.UploadURL with the agent of the request context
UploadURL_Serve(r) ==
    LET q == inflight[r]
        c == CreateBackup(backend, agents, backups, q.agent, q.ts, q.bytes,
                          S3Key(q.agent, q.ts), ManifestS3Key(q.agent, q.ts), now)
    IN  /\ q.pc = "authed"
        /\ q.op = "UploadURL"
        /\ IF QuotaExceeded(q.ctx.used_bytes, q.bytes, q.ctx.quota_bytes)
           THEN inflight' = [inflight EXCEPT ![r].pc = "answered",
                                          ![r].status = 403] /\ NoCommit
           ELSE IF c.err
           THEN inflight' = [inflight EXCEPT ![r].pc = "answered",
                                          ![r].status = 500] /\ NoCommit
           ELSE inflight' = [inflight EXCEPT ![r].pc = "answered",
                                          ![r].status = 200] /\ Commit(c.ag, c.bk)
        /\ last' = NoReply
        /\ UNCHANGED <<backend, objects, now, nextToken, mirror, config,
                       windows, calls, srv>>

\* the agent's quota as the operator configured it at registration
InitQuota ==
    /\ backend \in Backends
    /\ \E quota \in 1..DefaultQuotaBytes :
          agents = [Enrolled("active") EXCEPT ![1].quota_bytes = quota]
    /\ gsi = agents
    /\ backups = [k \in AgentIDs \X Timestamps |-> NoBackup]
    /\ objects = {}
    /\ now = 0
    /\ nextToken = 2
    /\ last = NoReply
    /\ mirror = NoMirror
    /\ config = DefaultConfig
    /\ windows = NoWindows
    /\ calls = NoCalls
    /\ srv = Serving
    /\ inflight = NoRequests

NextQuota ==
    \/ \E r \in 1..MaxCalls : Auth_RequireActive(r, {"UploadURL"})
    \/ \E r \in 1..MaxCalls : UploadURL_Serve(r)
    \/ Handlers_DeleteBackup
    \/ Handlers_UndeleteBackup
    \/ GSIPropagate

SpecQuota == InitQuota /\ [][NextQuota]_vars

\* C35: in every reachable state the encrypted_bytes of an agent's visible
\* backups sum to at most the agent's quota_bytes.
C35_VisibleSumWithinQuota ==
    \A a \in AgentIDs :
        agents[a].exists => VisibleSum(a) <= agents[a].quota_bytes

\* ---------------------------------------------------------------------
\* Tenant isolation

\* two enrolled active agents, agent id holding token id
InitTenants ==
    /\ backend \in Backends
    /\ agents = [id \in AgentIDs |->
                    IF id <= 2
                    THEN [exists |-> TRUE, token_hash |-> HashToken(id),
                          status |-> "active",
                          quota_bytes |-> DefaultQuotaBytes, used_bytes |-> 0]
                    ELSE NoAgent]
    /\ gsi = agents
    /\ backups = [k \in AgentIDs \X Timestamps |-> NoBackup]
    /\ objects = {}
    /\ now = 0
    /\ nextToken = 3
    /\ last = NoReply
    /\ mirror = NoMirror
    /\ config = DefaultConfig
    /\ windows = NoWindows
    /\ calls = NoCalls
    /\ srv = Serving
    /\ inflight = NoRequests

\* file names a client may send that are spelled with path characters
\* pointing at another agent's prefix
HostileFiles == {"../../2/1/backup.tar.gz.enc", "/1/1/manifest.json"}

\* upload-url of one byte naming at most one file
UploadURL_Hostile ==
    /\ Handlers_UploadURL({{}} \cup {{f} : f \in HostileFiles})
    /\ last'.bytes = 1

\* GET /v1/backups without a limit parameter
ListBackups_Default == Handlers_ListBackups /\ last'.limit = 0

NextTenants ==
    \/ UploadURL_Hostile
    \/ ListBackups_Default
    \/ DownloadURL
    \/ Handlers_DeleteBackup
    \/ Handlers_UndeleteBackup

SpecTenants == InitTenants /\ [][NextTenants]_vars

\* the prefix Register hands to an agent: agentID + "/"
BackupPrefix(a) == ToString(a) \o "/"

\* an object key without the agent's id in front
KeyStringNoAgent(key) == ToString(key[2]) \o "/" \o key[3]

\* the object key as the handler spells it:
\* agent.ID + "/" + req.Timestamp + "/" + file
KeyString(key) == BackupPrefix(key[1]) \o ToString(key[2]) \o "/" \o key[3]

C37_UploadAnswerMatchesStore ==
    [][last'.op = "UploadURL"
       => LET a == last'.agent
          IN  /\ last'.status # 200
                    => /\ \A k \in DOMAIN backups :
                             backups'[k].exists = backups[k].exists
                       /\ VisibleTimestamps(backups', a)
                             = VisibleTimestamps(backups, a)
                       /\ agents'[a].used_bytes = agents[a].used_bytes
              /\ last'.status = 200
                    => IsVisible(backups'[<<a, last'.ts>>])]_vars

\* ---------------------------------------------------------------------
\* DELETE /v1/backups/{timestamp} served concurrently: the store's
\* DeleteBackup is a read followed by a write

\* s.GetBackup(agentID, timestamp): nil is answered with 404
DeleteBackup_GetBackup(r) ==
    LET q == inflight[r]
        b == GetBackup(backups, q.agent, q.ts)
    IN  /\ q.pc = "authed"
        /\ q.op = "DeleteBackup"
        /\ inflight' = IF b.exists
                       THEN [inflight EXCEPT ![r].pc = "got", ![r].got = b]
                       ELSE [inflight EXCEPT ![r].pc = "answered",
                                             ![r].status = 404]
        /\ last' = NoReply
        /\ UNCHANGED <<backend, agents, gsi, backups, objects, now, nextToken,
                       mirror, config, windows, calls, srv>>

\* the row after the store's write: sqlite updates the row only WHERE
\* deleted_at IS NULL; dynamo's UpdateItem sets deleted_at and expires_at
\* on the key whatever the item's state, creating the item when missing
ExecSoftDelete(be, b, t) ==
    IF be = "sqlite"
    THEN IF IsVisible(b) THEN MarkDeleted(be, b, t) ELSE b
    ELSE MarkDeleted(be, [b EXCEPT !.exists = TRUE], t)

\* the UPDATE / UpdateItem, UpdateUsedBytes, the object deletes of the
\* handler, and the 200 answer
DeleteBackup_Exec(r) ==
    LET q == inflight[r]
        bk2 == [backups EXCEPT ![<<q.agent, q.ts>>] =
                   ExecSoftDelete(backend, @, now)]
    IN  /\ q.pc = "got"
        /\ inflight' = [inflight EXCEPT ![r].pc = "answered",
                                          ![r].status = 200]
        /\ Commit(UpdateUsedBytes(backend, agents, bk2, q.agent), bk2)
        /\ objects' = DeleteBackupObjects(objects, q.got)
        /\ last' = NoReply
        /\ UNCHANGED <<backend, now, nextToken, mirror, config, windows,
                       calls, srv>>

\* ---------------------------------------------------------------------
\* Suspension while requests are in flight

NextSuspend ==
    \/ \E r \in 1..MaxCalls :
          Auth_RequireActive(r, {"UploadURL", "DeleteBackup"})
    \/ \E r \in 1..MaxCalls : UploadURL_Serve(r)
    \/ \E r \in 1..MaxCalls : DeleteBackup_GetBackup(r)
    \/ \E r \in 1..MaxCalls : DeleteBackup_Exec(r)
    \/ AdminSuspendAgent
    \/ GSIPropagate

SpecSuspend == InitBackups /\ [][NextSuspend]_vars

\* C38: once the suspend of an agent has completed (its row says
\* suspended), no step changes a backup record of that agent.
C38_NoMutationAfterSuspend ==
    [][\A a \in AgentIDs :
          (agents[a].exists /\ agents[a].status = "suspended")
             => \A ts \in Timestamps :
                   backups'[<<a, ts>>] = backups[<<a, ts>>]]_vars

\* ---------------------------------------------------------------------
\* Concurrent DELETEs of one backup

\* an accepted upload-url of one byte
UploadURL_Accepted == UploadURL /\ last'.status = 200 /\ last'.bytes = 1

NextDeleteRace ==
    \/ UploadURL_Accepted
    \/ \E r \in 1..MaxCalls : Auth_RequireActive(r, {"DeleteBackup"})
    \/ \E r \in 1..MaxCalls : DeleteBackup_GetBackup(r)
    \/ \E r \in 1..MaxCalls : DeleteBackup_Exec(r)
    \/ Tick

SpecDeleteRace == InitBackups /\ [][NextDeleteRace]_vars

\* C39: a DELETE /v1/backups/{timestamp} that is answered 200 has
\* soft-deleted a record that was visible until then, so of several
\* concurrent DELETEs of one backup one returns 200; a DELETE whose record
\* is not visible (never created, or soft-deleted already) is answered
\* 404 and changes no record.
C39_DeleteOnlyVisible ==
    [][\A r \in 1..MaxCalls :
          (/\ inflight[r].op = "DeleteBackup"
           /\ inflight[r].pc # "answered"
           /\ inflight'[r].pc = "answered")
             => LET b == backups[<<inflight[r].agent, inflight[r].ts>>]
                IN  /\ inflight'[r].status = 200 => IsVisible(b)
                    /\ ~IsVisible(b)
                          => /\ inflight'[r].status = 404
                             /\ backups' = backups]_vars

====
